---- MODULE Spec2Model ----
(***************************************************************************)
(* json-data-forge: the path codec (flattenObject / the unflatten step of  *)
(* generateLocalData), the local generation engine (generateLocalData),    *)
(* the structural-change classifier (isStructuralChange) and the App       *)
(* component's cached-program slot (handleFieldChange, handleGenerate...). *)
(*                                                                         *)
(* Four specifications share the module, one per part of the program:      *)
(*   SpecCodec      flattenObject, then the unflatten step, on one record  *)
(*   SpecGen        one run of generateLocalData, row by row               *)
(*   SpecClassifier isStructuralChange on a pair of field configurations   *)
(*   SpecApp        the App component's handlers                           *)
(* The variables of the parts a specification does not use stay at their   *)
(* idle values.                                                            *)
(***************************************************************************)
EXTENDS Integers, Sequences, FiniteSets, TLC

VARIABLES
    \* --- path codec ---
    cpc,        \* "idle" | "start" | "flat" | "done"
    sample,     \* the nested record handed to flattenObject
    flat,       \* flattenObject's result: the ordered flat map
    nested,     \* the unflatten step's result: [err, val]
    \* --- one run of generateLocalData(count, fields) ---
    gpc,        \* "idle" | "start" | "run" | "done" | "threw"
    gcount,     \* the argument count
    gfields,    \* the argument fields
    gi,         \* the loop index i
    gstate,     \* the counter map `state`
    result,     \* the array `result`
    \* --- one call of isStructuralChange(f1, f2) ---
    spc,        \* "idle" | "start" | "done"
    f1,         \* the old field configuration
    f2,         \* the new field configuration
    verdict,    \* the value returned
    \* --- the App component ---
    HAS_API_KEY,        \* whether the build carries an API key
    step,               \* "INPUT" | "CONFIGURE" | "RESULT"
    inputJson,          \* the sample text
    isAnalyzing,
    isGenerating,
    error,              \* the message shown, NoError when null
    isLocalMode,
    fields,             \* the FieldConfig list
    generateCount,
    customInstructions,
    generatedData,      \* the rows of the last successful run
    generatedCode,      \* the cached-program slot
    templates,          \* the saved presets
    analyzeCall,        \* the handleAnalyze call waiting for analyzeJsonStructure
    generateCall,       \* the handleGenerate call waiting for its await
    executed,           \* the calls of the last step: a synthesis request, or
                        \* what it handed to executeGeneratedCode
    edits,              \* how many schema edits the user has made
    changed,            \* a structural edit, sample change or instruction change
                        \* happened after the program in the slot was requested
    \* --- one call of executeGeneratedCode(code, count, fields) ---
    epc,        \* "idle" | "start" | "done"
    ecode,      \* the argument code
    ecount,     \* the argument count
    efields,    \* the argument fields
    eresult,    \* what the call returned or threw: [err, val, thrown]
    \* --- one call of determineStrategy(key, value) ---
    dpc,        \* "idle" | "start" | "done"
    dkey,       \* the argument key
    dvalue,     \* the argument value
    dresult,    \* the value returned: [strategy, hasOptions, options]
    \* --- one call of analyzeJsonStructureLocal(jsonInput) ---
    ipc,        \* "idle" | "start" | "done" | "threw"
    ijson,      \* the argument jsonInput
    inferred,   \* the fields of the AnalysisResult returned
    \* --- two calls of generateLocalData, one after the other ---
    runNo,      \* 0 when idle, else the number of the call: 1 | 2
    firstResult \* the array the first call returned

codecVars == <<cpc, sample, flat, nested>>
genVars == <<gpc, gcount, gfields, gi, gstate, result>>
classVars == <<spc, f1, f2, verdict>>
appVars == <<HAS_API_KEY, step, inputJson, isAnalyzing, isGenerating, error,
             isLocalMode, fields, generateCount, customInstructions, generatedData,
             generatedCode, templates, analyzeCall, generateCall,
             executed, edits, changed>>
execVars == <<epc, ecode, ecount, efields, eresult>>
strategyVars == <<dpc, dkey, dvalue, dresult>>
inferVars == <<ipc, ijson, inferred>>
twiceVars == <<runNo, firstResult>>
vars == <<codecVars, genVars, classVars, appVars, execVars, strategyVars, inferVars, twiceVars>>

(***************************************************************************)
(* JavaScript values.  A value is a record [t, v]: t is the value's kind   *)
(* and v its payload.  An object's and an array's payload is the map from  *)
(* its own property names to values (an array's elements are its "0", "1", *)
(* ... properties, as in JavaScript).                                      *)
(***************************************************************************)
Num(n) == [t |-> "number", v |-> n]
\* a number that is no integer: m thousandths, m no multiple of 1000
Dec(m) == [t |-> "number", v |-> m, per |-> 1000]
\* Number.isInteger(val) of a number
IsInteger(val) == "per" \notin DOMAIN val
\* a number in thousandths, and the number that is m thousandths
Thousandths(val) == IF IsInteger(val) THEN 1000 * val.v ELSE val.v
NumberOf(m) == IF m % 1000 = 0 THEN Num(m \div 1000) ELSE Dec(m)
Str(s) == [t |-> "string", v |-> s]
Bool(b) == [t |-> "boolean", v |-> b]
Null == [t |-> "null", v |-> 0]
Undefined == [t |-> "undefined", v |-> 0]
NoProps == [k \in {} |-> Null]
Obj(m) == [t |-> "object", v |-> m]
Arr(m) == [t |-> "array", v |-> m]
EmptyObj == Obj(NoProps)
EmptyArr == Arr(NoProps)

\* typeof value === 'object' && value !== null (arrays included)
IsObjectLike(val) == val.t \in {"object", "array"}

\* m with property k set to val (an assignment m[k] = val)
SetProp(m, k, val) == [p \in DOMAIN m \cup {k} |-> IF p = k THEN val ELSE m[p]]

(***************************************************************************)
(* Property names and dot paths.  A dot path is the sequence of its        *)
(* dot-free segments: "a.0.b" is <<"a", "0", "b">>, and the empty string   *)
(* is <<"">>, what "".split('.') gives.  A property name that itself holds *)
(* a dot ("a.b") splits into several segments.                             *)
(***************************************************************************)
MaxArr == 2

\* the numerals that are array indices, in ascending order
IndexNames == <<"0", "1", "2", "3">>
\* the segments Number() parses to a number: Number("") is 0, Number("-1") is -1
NumericSegs == {"", "-1", "0", "1", "2", "3"}
\* property names in the order for..in and Object.keys enumerate them:
\* integer-like names ascending, then the others in insertion order
KeyOrder ==
    <<"0", "1", "2", "3", "a", "b", "a.b", "-1", "", "id", "role", "userId", "user_id",
      "ID", "rating", "qty">>

\* key.split('.')
Split(key) == IF key = "a.b" THEN <<"a", "b">> ELSE <<key>>

\* !isNaN(Number(seg))
IsNumeric(seg) == seg \in NumericSegs
\* String(Number(seg)): the property an array assignment current[Number(seg)] sets
NumKey(seg) == IF seg = "" THEN "0" ELSE seg

\* value.length of an array: one more than its largest index property
ArrLen(arr) ==
    LET idx == {i \in 1..Len(IndexNames) : IndexNames[i] \in DOMAIN arr.v}
    IN IF idx = {} THEN 0 ELSE CHOOSE i \in idx : \A j \in idx : j <= i

\* an ordered map (a JavaScript object used as a dictionary) is a sequence of
\* [k, val] entries; result[k] = val keeps the place of a key already present
HasKey(m, k) == \E i \in 1..Len(m) : m[i].k = k
Put(m, k, val) ==
    IF HasKey(m, k)
    THEN [i \in 1..Len(m) |-> IF m[i].k = k THEN [k |-> k, val |-> val] ELSE m[i]]
    ELSE Append(m, [k |-> k, val |-> val])

RECURSIVE Assign(_, _)
\* Object.assign(target, source)
Assign(target, source) ==
    IF source = <<>> THEN target
    ELSE Assign(Put(target, Head(source).k, Head(source).val), Tail(source))

\* mutant: the prefix is dropped
JoinKey_NoPrefix(prefix, key) == Split(key)

\* prefix ? `${prefix}.${key}` : key     (the empty string is falsy)
JoinKey(prefix, key) == IF prefix = <<"">> THEN Split(key) ELSE prefix \o Split(key)

RECURSIVE flattenObject(_, _)
RECURSIVE FlattenFrom(_, _, _, _)
\* the for..in loop of flattenObject from the n-th property name on
FlattenFrom(obj, prefix, n, res) ==
    IF n > Len(KeyOrder) THEN res
    ELSE LET key == KeyOrder[n] IN
         IF key \notin DOMAIN obj.v THEN FlattenFrom(obj, prefix, n + 1, res)
         ELSE LET value == obj.v[key]
                  newKey == JoinKey(prefix, key)
                  first == value.v["0"]
                  next ==
                      IF value.t = "object"
                      THEN Assign(res, flattenObject(value, newKey))
                      ELSE IF value.t = "array"
                      THEN IF ArrLen(value) > 0
                           THEN IF IsObjectLike(first)
                                THEN Assign(res, flattenObject(first, newKey \o <<"0">>))
                                ELSE Put(res, newKey \o <<"0">>, first)
                           ELSE res
                      ELSE Put(res, newKey, value)
              IN FlattenFrom(obj, prefix, n + 1, next)

\* the characters of the strings that are flattened as a whole
CharsOf(s) == CASE s = "ab" -> <<"a", "b">> [] s = "" -> <<>>
\* the own enumerable properties for..in visits: an object's and an array's
\* properties, a string's characters under their indices, none for a number,
\* a boolean or null
OwnProps(obj) ==
    CASE IsObjectLike(obj) -> obj.v
      [] obj.t = "string" ->
           [k \in {IndexNames[i] : i \in 1..Len(CharsOf(obj.v))} |->
               Str(CharsOf(obj.v)[CHOOSE i \in 1..Len(CharsOf(obj.v)) : IndexNames[i] = k])]
      [] OTHER -> NoProps

flattenObject(obj, prefix) == FlattenFrom(Obj(OwnProps(obj)), prefix, 1, <<>>)

(***************************************************************************)
(* The unflatten step of generateLocalData.  The module is an ES module,   *)
(* so it runs in strict mode: reading a property of null or undefined and  *)
(* creating a property on a primitive both throw a TypeError.              *)
(***************************************************************************)
Thrown == [err |-> TRUE, val |-> Undefined]
Ok(val) == [err |-> FALSE, val |-> val]

RECURSIVE SetPath(_, _, _)
\* the walk from `current` along parts, ending in the assignment of value;
\* the result is `current` after the assignment, or Thrown
SetPath(current, parts, value) ==
    IF current.t \in {"null", "undefined"} THEN Thrown
    ELSE IF Len(parts) = 1
    THEN LET lastKey == parts[1] IN
         IF ~IsObjectLike(current) THEN Thrown
         ELSE IF current.t = "array" /\ IsNumeric(lastKey)
         THEN Ok([current EXCEPT !.v = SetProp(@, NumKey(lastKey), value)])
         ELSE Ok([current EXCEPT !.v = SetProp(@, lastKey, value)])
    ELSE LET part == parts[1]
             nextPart == parts[2]
             isNextArray == IsNumeric(nextPart)
             present == IsObjectLike(current) /\ part \in DOMAIN current.v
                        /\ current.v[part] # Undefined
         IN IF ~present /\ ~IsObjectLike(current) THEN Thrown
            ELSE LET child == IF present THEN current.v[part]
                              ELSE IF isNextArray THEN EmptyArr ELSE EmptyObj
                     r == SetPath(child, Tail(parts), value)
                 IN IF r.err THEN Thrown
                    ELSE Ok([current EXCEPT !.v = SetProp(@, part, r.val)])

RECURSIVE UnflattenFrom(_, _)
\* Object.keys(flatRow).forEach(...) on the row built so far
UnflattenFrom(row, entries) ==
    IF entries = <<>> THEN Ok(row)
    ELSE LET r == SetPath(row, Head(entries).k, Head(entries).val)
         IN IF r.err THEN Thrown ELSE UnflattenFrom(r.val, Tail(entries))

\* integer-like keys first (ascending), then the others in insertion order
KeysInOrder(flatRow) ==
    LET isIdx(e) == Len(e.k) = 1 /\ \E i \in 1..Len(IndexNames) : IndexNames[i] = e.k[1]
        idxAt(i) == CHOOSE e \in {flatRow[j] : j \in 1..Len(flatRow)} : e.k = <<IndexNames[i]>>
        idxSeq == [i \in 1..Len(IndexNames) |-> i]
        RECURSIVE Idx(_)
        Idx(i) == IF i > Len(IndexNames) THEN <<>>
                  ELSE IF HasKey(flatRow, <<IndexNames[i]>>)
                       THEN <<idxAt(i)>> \o Idx(i + 1) ELSE Idx(i + 1)
    IN Idx(1) \o SelectSeq(flatRow, LAMBDA e : ~isIdx(e))

Unflatten(flatRow) == UnflattenFrom(EmptyObj, KeysInOrder(flatRow))

(***************************************************************************)
(* The records the codec is run on.                                        *)
(***************************************************************************)
Scalars == {Num(1), Null}
Leaves == Scalars \cup {EmptyObj, EmptyArr}

ObjsOver(keys, vals) == {Obj(m) : m \in UNION {[D -> vals] : D \in SUBSET keys}}
ArrOf(s) == Arr([k \in {IndexNames[i] : i \in 1..Len(s)} |->
                    s[CHOOSE i \in 1..Len(s) : IndexNames[i] = k]])
ArrsOver(vals) == {ArrOf(s) : s \in UNION {[1..n -> vals] : n \in 0..MaxArr}}

InnerKeys == {"a", "0"}
TopKeys == {"a", "b"}
DottedKeys == {"a", "a.b"}
ArrElems == Leaves \cup {Obj([a |-> Num(1)]), ArrOf(<<Num(1)>>)}
Inner == Scalars \cup ObjsOver(InnerKeys, Leaves) \cup ArrsOver(ArrElems)
\* records over plain names, and records one of whose names holds a dot
Samples ==
    ObjsOver(TopKeys, Inner) \cup ObjsOver(DottedKeys, Leaves \cup {Obj([b |-> Num(1)])})

\* the FieldConfig of no field
NoField ==
    [key |-> <<"">>, type |-> "string", strategy |-> "static",
     hasOptions |-> FALSE, options |-> NoProps]

\* the cached-program slot and what it can hold: the empty string, the comment
\* the local engine leaves, or a synthesized program.  A synthesized program
\* is known by what it does when executed (kind): "good" returns count rows,
\* "fixed" returns one row whatever the count, "nonarray" returns a
\* non-array, "throws" throws an Error, "throwsText" throws a string,
\* "throwsNull" throws null, "syntax" is not JavaScript
NoCode == [text |-> "", kind |-> "none"]
LocalPlaceholder == [text |-> "// Local Mode Logic", kind |-> "none"]
Program(kind) == [text |-> "program", kind |-> kind]
IsProgram(code) == code.text = "program"

NoError == "null"
NoCall == [pc |-> "idle"]
NoExec == [kind |-> "none"]

AppIdle ==
    /\ HAS_API_KEY = FALSE
    /\ step = "idle"
    /\ inputJson = ""
    /\ isAnalyzing = FALSE
    /\ isGenerating = FALSE
    /\ error = NoError
    /\ isLocalMode = TRUE
    /\ fields = <<>>
    /\ generateCount = 0
    /\ customInstructions = ""
    /\ generatedData = <<>>
    /\ generatedCode = NoCode
    /\ templates = <<>>
    /\ analyzeCall = NoCall
    /\ generateCall = NoCall
    /\ executed = NoExec
    /\ edits = 0
    /\ changed = FALSE

CodecIdle ==
    /\ cpc = "idle"
    /\ sample = EmptyObj
    /\ flat = <<>>
    /\ nested = Ok(Undefined)

GenIdle ==
    /\ gpc = "idle"
    /\ gcount = 0
    /\ gfields = <<>>
    /\ gi = 0
    /\ gstate = <<>>
    /\ result = <<>>

ClassIdle ==
    /\ spc = "idle"
    /\ f1 = NoField
    /\ f2 = NoField
    /\ verdict = FALSE

ExecIdle ==
    /\ epc = "idle"
    /\ ecode = NoCode
    /\ ecount = 0
    /\ efields = <<>>
    /\ eresult = Ok(Undefined)

StrategyIdle ==
    /\ dpc = "idle"
    /\ dkey = <<"">>
    /\ dvalue = Null
    /\ dresult = NoProps

InferIdle ==
    /\ ipc = "idle"
    /\ ijson = ""
    /\ inferred = <<>>

TwiceIdle ==
    /\ runNo = 0
    /\ firstResult = <<>>

CodecInit ==
    /\ cpc = "start"
    /\ sample \in Samples
    /\ flat = <<>>
    /\ nested = Ok(Undefined)
    /\ GenIdle
    /\ ClassIdle
    /\ AppIdle
    /\ ExecIdle
    /\ StrategyIdle
    /\ InferIdle
    /\ TwiceIdle

\* const flattened = flattenObject(sample)
Flatten ==
    /\ cpc = "start"
    /\ flat' = flattenObject(sample, <<"">>)
    /\ cpc' = "flat"
    /\ UNCHANGED <<sample, nested>>
    /\ UNCHANGED <<genVars, classVars, appVars, execVars, strategyVars, inferVars, twiceVars>>

\* the flat map taken as a flat row and re-nested
Renest ==
    /\ cpc = "flat"
    /\ nested' = Unflatten(flat)
    /\ cpc' = "done"
    /\ UNCHANGED <<sample, flat>>
    /\ UNCHANGED <<genVars, classVars, appVars, execVars, strategyVars, inferVars, twiceVars>>

CodecNext == Flatten \/ Renest

SpecCodec == CodecInit /\ [][CodecNext]_vars

(***************************************************************************)
(* Round trip of the codec.                                                *)
(***************************************************************************)
RECURSIVE ArraysAtMostOne(_)
\* every array of val holds at most one element
ArraysAtMostOne(val) ==
    IF ~IsObjectLike(val) THEN TRUE
    ELSE /\ val.t = "array" => ArrLen(val) <= 1
         /\ \A k \in DOMAIN val.v : ArraysAtMostOne(val.v[k])

\* a name with no dot in it that Number() does not parse
PlainName(key) == Split(key) = <<key>> /\ ~IsNumeric(key)

RECURSIVE NoEmptyPart(_)
\* every array of val holds exactly one element, every nested object at least
\* one property, and every property name of an object is plain
NoEmptyPart(val) ==
    IF ~IsObjectLike(val) THEN TRUE
    ELSE /\ val.t = "array" => DOMAIN val.v = {"0"}
         /\ val.t = "object" => DOMAIN val.v # {} /\ \A k \in DOMAIN val.v : PlainName(k)
         /\ \A k \in DOMAIN val.v : NoEmptyPart(val.v[k])

RoundTrippable(rec) ==
    /\ \A k \in DOMAIN rec.v : PlainName(k) /\ NoEmptyPart(rec.v[k])

Opts(field) == IF field.hasOptions THEN field.options ELSE NoProps
\* opts[name] !== undefined
Has(opts, name) == name \in DOMAIN opts

Max(a, b) == IF a >= b THEN a ELSE b

\* Number(s) of a string: the number and whether it is NaN
NumberOfStr(s) ==
    CASE s = "" -> [nan |-> FALSE, n |-> 0]
      [] s = "0" -> [nan |-> FALSE, n |-> 0]
      [] s = "1" -> [nan |-> FALSE, n |-> 1]
      [] s = "42" -> [nan |-> FALSE, n |-> 42]
      [] OTHER -> [nan |-> TRUE, n |-> 0]

\* Number(val)
ToNumber(val) ==
    CASE val.t = "number" -> [nan |-> FALSE, n |-> val.v]
      [] val.t = "string" -> NumberOfStr(val.v)
      [] val.t = "boolean" -> [nan |-> FALSE, n |-> IF val.v THEN 1 ELSE 0]
      [] val.t = "null" -> [nan |-> FALSE, n |-> 0]
      [] OTHER -> [nan |-> TRUE, n |-> 0]

\* Boolean(val)
Truthy(val) ==
    CASE val.t = "number" -> val.v # 0
      [] val.t = "string" -> val.v # ""
      [] val.t = "boolean" -> val.v
      [] val.t \in {"null", "undefined"} -> FALSE
      [] OTHER -> TRUE

\* fields.find(f => f.key === key): the index of the first match, 0 when none
FindField(flds, key) ==
    LET hits == {n \in 1..Len(flds) : flds[n].key = key}
    IN IF hits = {} THEN 0 ELSE CHOOSE n \in hits : \A m \in hits : n <= m

\* f.options?.start ?? 1
StartOf(field) == IF Has(Opts(field), "start") THEN Opts(field).start ELSE 1

\* opts.step || 1, opts.start || 1: zero is falsy
OrOne(opts, name) == IF Has(opts, name) /\ opts[name] # 0 THEN opts[name] ELSE 1

RECURSIVE InitState(_, _)
\* fields.forEach(f => { if (f.strategy === INCREMENT) state[f.key] = f.options?.start ?? 1 })
InitState(flds, state) ==
    IF flds = <<>> THEN state
    ELSE LET f == Head(flds) IN
         InitState(Tail(flds),
                   IF f.strategy = "increment" THEN SetProp(state, f.key, StartOf(f))
                   ELSE state)

\* mutant: the counters are never reset
ResetFields_Never(resetFields, flds, state) == state

RECURSIVE ResetFields(_, _, _)
\* (opts.groupingConfig.resetFields || []).forEach(resetKey => ...)
ResetFields(resetFields, flds, state) ==
    IF resetFields = <<>> THEN state
    ELSE LET resetKey == Head(resetFields)
             n == FindField(flds, resetKey)
         IN ResetFields(Tail(resetFields), flds,
                        IF n # 0 /\ flds[n].strategy = "increment"
                        THEN SetProp(state, resetKey, StartOf(flds[n]))
                        ELSE state)

\* mutant: countPerGroup is ignored, every grouping is spread evenly
GroupSize_AlwaysEven(opts, count) ==
    Max(1, count \div (IF Has(opts, "values") /\ Len(opts.values) > 0
                       THEN Len(opts.values) ELSE 1))

\* the group size of a field with a groupingConfig
GroupSize(opts, count) ==
    LET values == IF Has(opts, "values") THEN opts.values ELSE <<>>
        len == IF Len(values) = 0 THEN 1 ELSE Len(values)
    IN IF opts.groupingConfig.strategy = "even"
       THEN Max(1, count \div len)
       ELSE OrOne(opts.groupingConfig, "countPerGroup")

\* the branch `if (opts.groupingConfig)` of the field loop: [val, state]
GroupedValue(opts, i, count, flds, state) ==
    LET values == IF Has(opts, "values") THEN opts.values ELSE <<>>
        len == IF Len(values) = 0 THEN 1 ELSE Len(values)
        size == GroupSize(opts, count)
        idx == (i \div size) % len
        resets == IF Has(opts.groupingConfig, "resetFields")
                  THEN opts.groupingConfig.resetFields ELSE <<>>
    IN [val |-> IF idx < Len(values) THEN Str(values[idx + 1]) ELSE Undefined,
        state |-> IF i > 0 /\ i % size = 0
                  THEN ResetFields(resets, flds, state) ELSE state]

\* Math.random() is r / RandN for a draw r in 0..RandN-1;
\* Math.floor(Math.random() * n) is then (r * n) \div RandN
RandN == 2
RandomIndex(r, n) == (r * n) \div RandN

\* Math.random() of the number generators as a fraction p / q: the draws are
\* 0, 1 / RandN, ... and, for the last one, a number just below 1
RandomUnit(r) == IF r = RandN - 1 THEN [p |-> 31, q |-> 32] ELSE [p |-> r, q |-> RandN]

\* parseFloat(x.toFixed(prec)) in thousandths, for the number x of x1000 / q
\* thousandths and a precision of 0..3 digits: the nearest multiple of
\* 10^-prec, the larger one when two are as near
ToFixed(x1000, q, prec) ==
    LET unit == CASE prec = 0 -> 1000 [] prec = 1 -> 100 [] prec = 2 -> 10 [] OTHER -> 1
    IN unit * ((2 * x1000 + unit * q) \div (2 * unit * q))

\* opts[name] ?? dflt
OrElse(opts, name, dflt) == IF Has(opts, name) THEN opts[name] ELSE dflt
\* the generators that build a text from random draws (an identifier, a
\* name, an address, a telephone number, a day of the last year): the text
\* is known by its generator and the draw
TextStrategies == {"uuid", "name", "email", "phone", "date", "address"}

\* generators[field.strategy] || generators[STATIC], applied: [val, state]
Generate(field, opts, state, r) ==
    CASE field.strategy = "increment" ->
           LET cur == IF field.key \in DOMAIN state THEN state[field.key]
                      ELSE OrOne(opts, "start")
           IN [val |-> Num(cur),
               state |-> SetProp(state, field.key, cur + OrOne(opts, "step"))]
      [] field.strategy = "enum" ->
           LET vals == IF Has(opts, "values") THEN opts.values ELSE <<>>
           IN [val |-> IF Len(vals) = 0 THEN Str("enum")
                       ELSE Str(vals[RandomIndex(r, Len(vals)) + 1]),
               state |-> state]
      [] field.strategy = "random_int" ->
           LET min == Thousandths(OrElse(opts, "min", Num(0)))
               max == Thousandths(OrElse(opts, "max", Num(100)))
               u == RandomUnit(r)
           IN [val |-> NumberOf(1000 * ((u.p * (max - min + 1000)) \div (1000 * u.q)) + min),
               state |-> state]
      [] field.strategy = "random_float" ->
           LET min == Thousandths(OrElse(opts, "min", Num(0)))
               max == Thousandths(OrElse(opts, "max", Num(100)))
               prec == OrElse(opts, "precision", 2)
               u == RandomUnit(r)
           IN [val |-> NumberOf(ToFixed(u.p * (max - min) + u.q * min, u.q, prec)),
               state |-> state]
      [] field.strategy = "ai_context" ->
           [val |-> Str("Lorem ipsum (Local generated string)"), state |-> state]
      [] field.strategy = "sentence" ->
           [val |-> Str("The quick brown fox jumps over the lazy dog."), state |-> state]
      [] field.strategy = "regex" ->
           [val |-> Str(IF Has(opts, "pattern") THEN "regex_sim(pattern)" ELSE "regex_sim(?)"),
            state |-> state]
      [] field.strategy \in TextStrategies ->
           [val |-> Str(<<field.strategy, r>>), state |-> state]
      [] OTHER ->
           [val |-> IF Has(opts, "staticValue") THEN opts.staticValue ELSE Undefined,
            state |-> state]

\* mutant: no type enforcement
TypeEnforce_Raw(field, val) == val

\* TYPE ENFORCEMENT: a static field's value is converted to the field's type
TypeEnforce(field, val) ==
    IF field.strategy = "static" /\ val # Undefined /\ val # Null
    THEN IF field.type = "number"
         THEN LET num == ToNumber(val) IN IF num.nan THEN val ELSE Num(num.n)
         ELSE IF field.type = "boolean"
         THEN IF val = Str("true") THEN Bool(TRUE)
              ELSE IF val = Str("false") THEN Bool(FALSE)
              ELSE Bool(Truthy(val))
         ELSE val
    ELSE val

\* one pass of the body of fields.forEach(field => ...): [val, state]
FieldValue(field, i, count, flds, state, r) ==
    LET opts == Opts(field)
        g == IF Has(opts, "groupingConfig")
             THEN GroupedValue(opts, i, count, flds, state)
             ELSE Generate(field, opts, state, r)
    IN [val |-> TypeEnforce(field, g.val), state |-> g.state]

RECURSIVE FieldLoop(_, _, _, _, _, _, _)
\* fields.forEach from the n-th field on: [flatRow, state]
FieldLoop(n, i, count, flds, state, flatRow, rnd) ==
    IF n > Len(flds) THEN [flatRow |-> flatRow, state |-> state]
    ELSE LET fv == FieldValue(flds[n], i, count, flds, state, rnd[n])
         IN FieldLoop(n + 1, i, count, flds, fv.state,
                      Put(flatRow, flds[n].key, fv.val), rnd)

(***************************************************************************)
(* generateLocalData(count, fields), one loop iteration per step.          *)
(***************************************************************************)
\* mutant: the counter map outlives the call that made it
GenStart_Shared ==
    /\ gpc = "start"
    /\ gstate' = IF gstate = NoProps THEN InitState(gfields, NoProps) ELSE gstate
    /\ gi' = 0
    /\ result' = <<>>
    /\ gpc' = "run"
    /\ UNCHANGED <<gcount, gfields>>
    /\ UNCHANGED <<codecVars, classVars, appVars, execVars, strategyVars, inferVars, twiceVars>>

\* const result = []; const state = {}; fields.forEach(... state[f.key] = start ...)
GenStart ==
    /\ gpc = "start"
    /\ gstate' = InitState(gfields, NoProps)
    /\ gi' = 0
    /\ result' = <<>>
    /\ gpc' = "run"
    /\ UNCHANGED <<gcount, gfields>>
    /\ UNCHANGED <<codecVars, classVars, appVars, execVars, strategyVars, inferVars, twiceVars>>

\* one iteration of for (let i = 0; i < count; i++): the field loop, the
\* unflatten step and result.push(row); a TypeError of the unflatten step
\* leaves the function
GenRow ==
    /\ gpc = "run"
    /\ gi < gcount
    /\ \E rnd \in [1..Len(gfields) -> 0..(RandN - 1)] :
         LET out == FieldLoop(1, gi, gcount, gfields, gstate, <<>>, rnd)
             row == Unflatten(out.flatRow)
         IN IF row.err
            THEN /\ gpc' = "threw"
                 /\ UNCHANGED <<gi, gstate, result>>
            ELSE /\ result' = Append(result, row.val)
                 /\ gstate' = out.state
                 /\ gi' = gi + 1
                 /\ gpc' = "run"
    /\ UNCHANGED <<gcount, gfields>>
    /\ UNCHANGED <<codecVars, classVars, appVars, execVars, strategyVars, inferVars, twiceVars>>

\* mutant: the loop is left before the last row
GenReturn_Early ==
    /\ gpc = "run"
    /\ gi > 0
    /\ gpc' = "done"
    /\ UNCHANGED <<gcount, gfields, gi, gstate, result>>
    /\ UNCHANGED <<codecVars, classVars, appVars, execVars, strategyVars, inferVars, twiceVars>>

\* return result
GenReturn ==
    /\ gpc = "run"
    /\ gi >= gcount
    /\ gpc' = "done"
    /\ UNCHANGED <<gcount, gfields, gi, gstate, result>>
    /\ UNCHANGED <<codecVars, classVars, appVars, execVars, strategyVars, inferVars, twiceVars>>

GenNext == GenStart \/ GenRow \/ GenReturn

(***************************************************************************)
(* The runs of generateLocalData that are checked: a counter field         *)
(* "user.id", a grouping field "team", or both in either order.            *)
(***************************************************************************)
MaxCount == 5
MaxPerGroup == 3
MaxRobustCount == 2

IdKey == <<"user", "id">>
TeamKey == <<"team">>
GhostKey == <<"ghost">>

Starts == {0, 2}
Steps == {-1, 0, 2}
ValueLists == {<<>>, <<"A">>, <<"A", "B">>, <<"1", "true", "B">>}
ResetLists == {<<>>, <<GhostKey, IdKey>>}

Field(key, type, strategy, options) ==
    [key |-> key, type |-> type, strategy |-> strategy,
     hasOptions |-> TRUE, options |-> options]

IdFields ==
    {Field(IdKey, "number", "increment", [start |-> s, step |-> k]) :
        s \in Starts, k \in Steps}
    \cup {[key |-> IdKey, type |-> "number", strategy |-> "increment",
           hasOptions |-> FALSE, options |-> NoProps]}

GroupingConfigs ==
    {[strategy |-> "even", resetFields |-> rf] : rf \in ResetLists}
    \cup {[strategy |-> "fixed", countPerGroup |-> c, resetFields |-> rf] :
            c \in 0..MaxPerGroup, rf \in ResetLists}

TeamFields ==
    {Field(TeamKey, ts[1], ts[2], [values |-> vl, groupingConfig |-> gc]) :
        ts \in {<<"string", "enum">>, <<"boolean", "static">>},
        vl \in ValueLists, gc \in GroupingConfigs}

FieldLists ==
    {<<f>> : f \in IdFields \cup TeamFields}
    \cup {<<f, g>> : f \in IdFields, g \in TeamFields}
    \cup {<<g, f>> : f \in IdFields, g \in TeamFields}

GenInit ==
    /\ gpc = "start"
    /\ gcount \in 0..MaxCount
    /\ gfields \in FieldLists
    /\ gi = 0
    /\ gstate = NoProps
    /\ result = <<>>
    /\ CodecIdle
    /\ ClassIdle
    /\ AppIdle
    /\ ExecIdle
    /\ StrategyIdle
    /\ InferIdle
    /\ TwiceIdle

SpecGen == GenInit /\ [][GenNext]_vars

(***************************************************************************)
(* Properties of a run of generateLocalData.                               *)
(***************************************************************************)
RECURSIVE GetPath(_, _)
\* the value a row holds at a dot path
GetPath(val, parts) ==
    IF parts = <<>> THEN val
    ELSE IF IsObjectLike(val) /\ Head(parts) \in DOMAIN val.v
    THEN GetPath(val.v[Head(parts)], Tail(parts))
    ELSE Undefined

\* the value row i (from 0) of the result holds for the field
Emitted(i, field) == GetPath(result[i + 1], field.key)

IsGrouping(field) == Has(Opts(field), "groupingConfig")

\* some grouping field of the list names key in its resetFields
IsReset(flds, key) ==
    \E n \in 1..Len(flds) :
        /\ IsGrouping(flds[n])
        /\ \E m \in 1..Len(flds[n].options.groupingConfig.resetFields) :
               flds[n].options.groupingConfig.resetFields[m] = key

\* the increment fields of the run whose start and step are both configured
Counters ==
    {n \in 1..Len(gfields) :
        /\ gfields[n].strategy = "increment"
        /\ ~IsGrouping(gfields[n])
        /\ Has(Opts(gfields[n]), "start") /\ Has(Opts(gfields[n]), "step")}

\* the grouping fields of the run
Groupings == {n \in 1..Len(gfields) : IsGrouping(gfields[n])}

\* C2: an increment field with start s and step k that no grouping field
\* resets carries s + i*k in row i, for every s and k (0 and negatives too).
C2_IncrementRows ==
    \A n \in Counters :
        ~IsReset(gfields, gfields[n].key) =>
            \A i \in 0..(Len(result) - 1) :
                Emitted(i, gfields[n]) =
                    Num(gfields[n].options.start + i * gfields[n].options.step)

\* C3 (for the steps other than 0, which C2 settles, and a grouping field
\* with at least one value): whatever the order of the fields, from the first
\* group boundary on, row i of an increment field that the grouping field
\* resets carries start + (i mod size) * step.
C3_ResetAtBoundary ==
    \A n \in Counters : \A g \in Groupings :
        LET size == GroupSize(gfields[g].options, gcount)
            f == gfields[n]
        IN (IsReset(<<gfields[g]>>, f.key) /\ f.options.step # 0
                /\ Len(gfields[g].options.values) >= 1) =>
              \A i \in 0..(Len(result) - 1) :
                  i >= size =>
                      Emitted(i, f) = Num(f.options.start + (i % size) * f.options.step)

\* values[idx], or undefined past the end of the list
ValueAt(values, idx) == IF idx < Len(values) THEN Str(values[idx + 1]) ELSE Undefined

\* a static field whose declared type is number or boolean
IsCoerced(field) == field.strategy = "static" /\ field.type \in {"number", "boolean"}

FixedGroupings ==
    {n \in Groupings :
        /\ gfields[n].options.groupingConfig.strategy = "fixed"
        /\ gfields[n].options.groupingConfig.countPerGroup > 0
        /\ Len(gfields[n].options.values) >= 1}

EvenGroupings ==
    {n \in Groupings : gfields[n].options.groupingConfig.strategy = "even"}

\* C4 as stated: under 'fixed' grouping with countPerGroup = c > 0 and L >= 1
\* values, row i stores values[floor(i/c) mod L].
C4_FixedStoresValue ==
    \A n \in FixedGroupings :
        LET o == gfields[n].options
            c == o.groupingConfig.countPerGroup
        IN \A i \in 0..(Len(result) - 1) :
               Emitted(i, gfields[n]) = ValueAt(o.values, (i \div c) % Len(o.values))

\* C4 amended: row i stores values[floor(i/c) mod L]; when the grouping field
\* is a static field of type number or boolean, it stores that value converted
\* to the type (the number it parses to; true/false for "true"/"false", else
\* its truthiness).
C4_FixedGroupValue ==
    \A n \in FixedGroupings :
        LET o == gfields[n].options
            c == o.groupingConfig.countPerGroup
        IN \A i \in 0..(Len(result) - 1) :
               LET v == ValueAt(o.values, (i \div c) % Len(o.values))
               IN Emitted(i, gfields[n]) =
                     IF ~IsCoerced(gfields[n]) THEN v
                     ELSE IF gfields[n].type = "boolean"
                          THEN Bool(v.v = "true" \/ (v.v # "false" /\ v.v # ""))
                          ELSE IF NumberOfStr(v.v).nan THEN v ELSE Num(NumberOfStr(v.v).n)

\* the scenario of the specification: values [A, B], c = 2, count = 4 gives
\* A, A, B, B
C4_Witness ==
    /\ gpc = "done"
    /\ gcount = 4
    /\ \E n \in FixedGroupings :
          /\ gfields[n].options.values = <<"A", "B">>
          /\ gfields[n].options.groupingConfig.countPerGroup = 2
          /\ gfields[n].strategy = "enum"
          /\ [i \in 1..4 |-> Emitted(i - 1, gfields[n])] =
                <<Str("A"), Str("A"), Str("B"), Str("B")>>

\* the group size the claim names: max(1, floor(N / max(L, 1)))
EvenSize(n) == Max(1, gcount \div Max(Len(gfields[n].options.values), 1))

\* C5 as stated, its stored value: under 'even' grouping row i stores
\* values[floor(i/size) mod L], size = max(1, floor(N / max(L, 1))).
C5_EvenStoresValue ==
    \A n \in EvenGroupings :
        LET o == gfields[n].options IN
        \A i \in 0..(Len(result) - 1) :
            Len(o.values) >= 1 =>
                Emitted(i, gfields[n]) =
                    ValueAt(o.values, (i \div EvenSize(n)) % Len(o.values))

\* C5 amended, its stored value: row i stores values[floor(i/size) mod
\* max(L,1)], undefined when the list is empty, converted to the declared type
\* when the grouping field is a static field of type number or boolean.
C5_EvenGroupValue ==
    \A n \in EvenGroupings :
        LET o == gfields[n].options IN
        \A i \in 0..(Len(result) - 1) :
            LET v == ValueAt(o.values, (i \div EvenSize(n)) % Max(Len(o.values), 1))
            IN Emitted(i, gfields[n]) =
                  IF ~IsCoerced(gfields[n]) \/ v = Undefined THEN v
                  ELSE IF gfields[n].type = "boolean"
                       THEN Bool(v.v = "true" \/ (v.v # "false" /\ v.v # ""))
                       ELSE IF NumberOfStr(v.v).nan THEN v ELSE Num(NumberOfStr(v.v).n)

\* C5 amended, its resets: in the iteration of row i the counter of a listed
\* increment field is set back to its start exactly when i > 0 and
\* i mod size = 0 (it then holds start, or start plus one step when the
\* counter field comes after the grouping field); in every other iteration it
\* only advances by its step (steps other than 0, which C2 settles).
C5_EvenResetRows ==
    \A n \in EvenGroupings : \A c \in Counters :
        LET f == gfields[c]
            stp == f.options.step
        IN (IsReset(<<gfields[n]>>, f.key) /\ stp # 0
                /\ gpc = "run" /\ gpc' = "run" /\ gi' = gi + 1) =>
              IF gi > 0 /\ gi % EvenSize(n) = 0
              THEN gstate'[f.key] = IF c < n THEN f.options.start
                                    ELSE f.options.start + stp
              ELSE gstate'[f.key] = gstate[f.key] + stp

C5_EvenGrouping == []C5_EvenGroupValue /\ [][C5_EvenResetRows]_vars

\* 'even' grouping of 5 rows over [A, B]: size 2, rows A, A, B, B, A, and the
\* counter was reset in the iterations of rows 2 and 4
C5_Witness ==
    /\ gpc = "done"
    /\ gcount = 5
    /\ \E n \in EvenGroupings : \E c \in Counters :
          /\ IsReset(<<gfields[n]>>, gfields[c].key)
          /\ n < c
          /\ gfields[n].options.values = <<"A", "B">>
          /\ gfields[c].options.step = 2
          /\ [i \in 1..5 |-> Emitted(i - 1, gfields[n])] =
                <<Str("A"), Str("A"), Str("B"), Str("B"), Str("A")>>
          /\ [i \in 1..5 |-> Emitted(i - 1, gfields[c])] =
                [i \in 1..5 |-> Num(gfields[c].options.start + ((i - 1) % 2) * 2)]

(***************************************************************************)
(* isStructuralChange(f1, f2), App.tsx.                                    *)
(***************************************************************************)
\* !!f.options?.groupingConfig
HasGrouping(f) == f.hasOptions /\ Has(f.options, "groupingConfig")

\* mutant: a field that gains or loses its options map counts as structural
isStructuralChange_OptionsToggle(old, new) ==
    \/ old.key # new.key
    \/ old.type # new.type
    \/ old.strategy # new.strategy
    \/ HasGrouping(old) # HasGrouping(new)
    \/ old.hasOptions # new.hasOptions

isStructuralChange(old, new) ==
    IF old.key # new.key THEN TRUE
    ELSE IF old.type # new.type THEN TRUE
    ELSE IF old.strategy # new.strategy THEN TRUE
    ELSE IF HasGrouping(old) # HasGrouping(new) THEN TRUE
    ELSE IF (~old.hasOptions /\ new.hasOptions) \/ (old.hasOptions /\ ~new.hasOptions)
         THEN FALSE
    ELSE FALSE

\* the pairs the classifier is run on
ClassOptions ==
    {[min |-> 0, max |-> m] : m \in {10, 20}}
    \cup {[values |-> vl, staticValue |-> Str("x")] : vl \in {<<"A">>, <<"A", "B">>}}
    \cup {[values |-> <<"A">>, groupingConfig |-> gc] :
            gc \in {[strategy |-> "even", resetFields |-> <<>>],
                    [strategy |-> "fixed", countPerGroup |-> 2, resetFields |-> <<>>],
                    [strategy |-> "fixed", countPerGroup |-> 2, resetFields |-> <<IdKey>>]}}

ClassFields ==
    {Field(k, t, st, o) :
        k \in {IdKey, TeamKey}, t \in {"string", "number"},
        st \in {"enum", "static"}, o \in ClassOptions}
    \cup {[key |-> k, type |-> t, strategy |-> st, hasOptions |-> FALSE, options |-> NoProps] :
            k \in {IdKey, TeamKey}, t \in {"string", "number"}, st \in {"enum", "static"}}

ClassInit ==
    /\ spc = "start"
    /\ f1 \in ClassFields
    /\ f2 \in ClassFields
    /\ verdict = FALSE
    /\ CodecIdle
    /\ GenIdle
    /\ AppIdle
    /\ ExecIdle
    /\ StrategyIdle
    /\ InferIdle
    /\ TwiceIdle

Classify ==
    /\ spc = "start"
    /\ verdict' = isStructuralChange(f1, f2)
    /\ spc' = "done"
    /\ UNCHANGED <<f1, f2>>
    /\ UNCHANGED <<codecVars, genVars, appVars, execVars, strategyVars, inferVars, twiceVars>>

ClassNext == Classify

SpecClassifier == ClassInit /\ [][ClassNext]_vars

\* the two configurations differ at most in the contents of their options
\* (or in having an options map at all), not in the presence of a groupingConfig
OptionsOnlyEdit ==
    /\ f1.key = f2.key /\ f1.type = f2.type /\ f1.strategy = f2.strategy
    /\ ("groupingConfig" \in DOMAIN Opts(f1)) = ("groupingConfig" \in DOMAIN Opts(f2))

\* C6: isStructuralChange returns true iff key, type or strategy differs or
\* exactly one of the two carries options.groupingConfig; an edit of option
\* contents only, or one that adds or removes the options map without a
\* groupingConfig, returns false.
C6_Classifier ==
    spc = "done" =>
        /\ f1.key # f2.key => verdict
        /\ f1.type # f2.type => verdict
        /\ f1.strategy # f2.strategy => verdict
        /\ ("groupingConfig" \in DOMAIN Opts(f1)) # ("groupingConfig" \in DOMAIN Opts(f2))
              => verdict
        /\ OptionsOnlyEdit => ~verdict

\* an edit of countPerGroup and resetFields only, and one that drops the
\* options map, are both classified parametric
C6_Witness ==
    /\ spc = "done"
    /\ ~verdict
    /\ OptionsOnlyEdit
    /\ f1 # f2
    /\ \/ /\ "groupingConfig" \in DOMAIN Opts(f1)
          /\ f1.options.groupingConfig # f2.options.groupingConfig
       \/ f1.hasOptions /\ ~f2.hasOptions

(***************************************************************************)
(* The App component.  The sample text is the default sample (cut down to  *)
(* its properties id and role) or a sample the user typed; BrokenJson is a *)
(* text that is not JSON.                                                  *)
(***************************************************************************)
DEFAULT_JSON == "[{\"id\":1001,\"role\":\"admin\"}]"
TypedJson == "{\"id\":7}"
BrokenJson == "{"
SampleTexts == {DEFAULT_JSON, TypedJson}

\* the sample texts handed to the local analysis: an object, an array, a
\* scalar or null at the root
RatedJson == "{\"id\":1001,\"rating\":4.5}"
FineRatedJson == "{\"id\":0,\"rating\":0.008}"
CamelJson == "{\"userId\":5,\"rating\":4.5}"
NestedJson == "{\"a\":{\"b\":null,\"user_id\":-2},\"qty\":10}"
WellFormedTexts ==
    {DEFAULT_JSON, TypedJson, RatedJson, FineRatedJson, CamelJson, NestedJson,
     "{}", "[]", "[null]", "[7]", "[[1,2]]", "null", "5", "true", "\"ab\"", "\"\""}
\* texts that are not JSON
BrokenTexts == {BrokenJson, "", "{id:1}", "[1,]", "undefined"}

\* JSON.parse(text): [err, val]
JsonParse(text) ==
    CASE text = DEFAULT_JSON ->
           Ok(Arr([n \in {"0"} |-> Obj([id |-> Num(1001), role |-> Str("admin")])]))
      [] text = TypedJson -> Ok(Obj([id |-> Num(7)]))
      [] text = RatedJson -> Ok(Obj([id |-> Num(1001), rating |-> Dec(4500)]))
      [] text = FineRatedJson -> Ok(Obj([id |-> Num(0), rating |-> Dec(8)]))
      [] text = CamelJson -> Ok(Obj([userId |-> Num(5), rating |-> Dec(4500)]))
      [] text = NestedJson ->
           Ok(Obj([a |-> Obj([b |-> Null, user_id |-> Num(-2)]), qty |-> Num(10)]))
      [] text = "{}" -> Ok(EmptyObj)
      [] text = "[]" -> Ok(EmptyArr)
      [] text = "[null]" -> Ok(Arr([n \in {"0"} |-> Null]))
      [] text = "[7]" -> Ok(Arr([n \in {"0"} |-> Num(7)]))
      [] text = "[[1,2]]" ->
           Ok(Arr([n \in {"0"} |-> Arr([m \in {"0", "1"} |-> IF m = "0" THEN Num(1) ELSE Num(2)])]))
      [] text = "null" -> Ok(Null)
      [] text = "5" -> Ok(Num(5))
      [] text = "true" -> Ok(Bool(TRUE))
      [] text = "\"ab\"" -> Ok(Str("ab"))
      [] text = "\"\"" -> Ok(Str(""))
      [] OTHER -> Thrown

\* key.toLowerCase(), for the property names that hold capitals
Lower(seg) ==
    CASE seg = "userId" -> "userid"
      [] seg = "ID" -> "id"
      [] seg = "USER_ID" -> "user_id"
      [] OTHER -> seg
LowerKey(key) == [n \in DOMAIN key |-> Lower(key[n])]
\* which of the suffixes '_id' and 'Id' a property name ends with
IdSuffixes(seg) ==
    CASE seg \in {"user_id", "_id"} -> {"_id"}
      [] seg = "userId" -> {"Id"}
      [] OTHER -> {}
\* the words of determineStrategy's key tests that a property name holds
KeyWords(seg) ==
    CASE seg = "user_name" -> {"user", "name"}
      [] seg = "user" -> {"user"}
      [] seg = "created_at" -> {"_at"}
      [] seg = "email" -> {"email"}
      [] OTHER -> {}
\* k.includes(word) for one of the words: no word holds a dot
KeyIncludes(key, words) == \E n \in 1..Len(key) : KeyWords(key[n]) \cap words # {}
\* k === 'id' || k.endsWith('_id') || k.endsWith('Id') for the lower-cased key k
IsIdKey(key) ==
    LET k == LowerKey(key)
    IN \/ k = <<"id">>
       \/ "_id" \in IdSuffixes(k[Len(k)])
       \/ "Id" \in IdSuffixes(k[Len(k)])
\* the string tests of determineStrategy
IsUuidText(s) == FALSE
IsIsoDateText(s) == s = "2023-10-01"
DateParses(s) == s = "2023-10-01"

\* mutant: the larger of value * 2 and 100
TwiceOr100_Max(value) ==
    IF Thousandths(value) * 2 > 100000 THEN NumberOf(Thousandths(value) * 2) ELSE Num(100)

\* value * 2 || 100: zero is falsy
TwiceOr100(value) ==
    IF Thousandths(value) * 2 # 0 THEN NumberOf(Thousandths(value) * 2) ELSE Num(100)

\* determineStrategy(key, value): [strategy, hasOptions, options]
determineStrategy(key, value) ==
    LET with(st, o) == [strategy |-> st, hasOptions |-> TRUE, options |-> o]
        bare(st) == [strategy |-> st, hasOptions |-> FALSE, options |-> NoProps]
    IN CASE value.t = "null" -> with("static", [staticValue |-> Str("null")])
         [] value.t = "number" ->
              IF IsIdKey(key) /\ IsInteger(value)
              THEN with("increment", [start |-> value.v, step |-> 1])
              ELSE IF IsInteger(value)
              THEN with("random_int", [min |-> Num(0), max |-> TwiceOr100(value)])
              ELSE with("random_float",
                        [min |-> Num(0), max |-> TwiceOr100(value), precision |-> 2])
         [] value.t = "boolean" -> with("enum", [values |-> <<"true", "false">>])
         [] value.t = "string" ->
              IF IsUuidText(value.v) THEN bare("uuid")
              ELSE IF IsIsoDateText(value.v)
                      \/ (DateParses(value.v) /\ KeyIncludes(LowerKey(key), {"date", "time", "_at"}))
              THEN with("date", [format |-> "YYYY-MM-DD"])
              ELSE IF KeyIncludes(LowerKey(key), {"email"}) THEN bare("email")
              ELSE IF KeyIncludes(LowerKey(key), {"name", "user", "author"}) THEN bare("name")
              ELSE IF KeyIncludes(LowerKey(key), {"phone", "tel"}) THEN bare("phone")
              ELSE IF KeyIncludes(LowerKey(key), {"address", "city", "street", "country"})
              THEN bare("address")
              ELSE bare("ai_context")
         [] OTHER -> with("static", [staticValue |-> Str("[object Object]")])

\* the FieldConfig analyzeJsonStructureLocal builds for one flattened entry
FieldOfEntry(e) ==
    LET ds == determineStrategy(e.k, e.val)
    IN [key |-> e.k,
        type |-> CASE e.val.t = "number" -> "number"
                   [] e.val.t = "boolean" -> "boolean"
                   [] e.val.t = "array" -> "array"
                   [] e.val.t = "null" -> "null"
                   [] OTHER -> "string",
        strategy |-> ds.strategy,
        hasOptions |-> ds.hasOptions,
        options |-> ds.options,
        sampleValue |-> e.val]

\* mutant: a text that does not parse is analyzed as the empty object
analyzeJsonStructureLocal_Lenient(jsonInput) ==
    IF JsonParse(jsonInput).err THEN Ok(<<>>)
    ELSE Ok([n \in 1..Len(flattenObject(JsonParse(jsonInput).val, <<"">>)) |->
               FieldOfEntry(flattenObject(JsonParse(jsonInput).val, <<"">>)[n])])

\* analyzeJsonStructureLocal(jsonInput).fields: [err, val]
analyzeJsonStructureLocal(jsonInput) ==
    LET parsed == JsonParse(jsonInput)
        first == IF parsed.val.t = "array"
                 THEN IF ArrLen(parsed.val) > 0 THEN parsed.val.v["0"] ELSE EmptyObj
                 ELSE parsed.val
        flattened == flattenObject(first, <<"">>)
    IN IF parsed.err THEN Thrown
       ELSE Ok([n \in 1..Len(flattened) |-> FieldOfEntry(flattened[n])])

RECURSIVE LocalRows(_, _, _, _, _)
\* the loop of generateLocalData from row i on: [err, val].  The strategies
\* of the App's field lists draw no random number
LocalRows(i, count, flds, state, rows) ==
    IF i >= count THEN Ok(rows)
    ELSE LET out == FieldLoop(1, i, count, flds, state, <<>>, [n \in 1..Len(flds) |-> 0])
             row == Unflatten(out.flatRow)
         IN IF row.err THEN Thrown
            ELSE LocalRows(i + 1, count, flds, out.state, Append(rows, row.val))

\* generateLocalData(count, fields): [err, val]
generateLocalData(count, flds) == LocalRows(0, count, flds, InitState(flds, NoProps), <<>>)

\* the rows a synthesized program returns
ProgramRows(code, n) == [i \in 1..n |-> Obj([id |-> Num(i)])]

\* an Error object, and a failed call: what it threw
ErrorOf(name, message) == [t |-> "error", v |-> [name |-> name, message |-> message]]
Raise(e) == [err |-> TRUE, val |-> Undefined, thrown |-> e]

\* new Function('count', 'fields', wrappedCode) and func(count, fields): the
\* value returned ([kind |-> "return", array, val]) or the value thrown
\* ([kind |-> "throw", thrown]).  The empty string and the local engine's
\* comment define no generateData; a text that is not JavaScript fails in
\* new Function; a program may throw an Error, a string or null
RunProgram(code, count, flds) ==
    LET returns(isArray, val) == [kind |-> "return", array |-> isArray, val |-> val]
        throws(e) == [kind |-> "throw", thrown |-> e]
    IN CASE ~IsProgram(code) ->
              throws(ErrorOf("ReferenceError", "generateData is not defined"))
         [] code.kind = "good" -> returns(TRUE, ProgramRows(code, count))
         [] code.kind = "fixed" -> returns(TRUE, ProgramRows(code, 1))
         [] code.kind = "nonarray" -> returns(FALSE, Obj([id |-> Num(1)]))
         [] code.kind = "throws" -> throws(ErrorOf("Error", "boom"))
         [] code.kind = "throwsText" -> throws(Str("boom"))
         [] code.kind = "throwsNull" -> throws(Null)
         [] OTHER -> throws(ErrorOf("SyntaxError", "Unexpected token"))

\* e.message in the catch block of executeGeneratedCode: [err, val]; reading
\* a property of null or undefined throws
MessageOf(e) ==
    CASE e.t \in {"null", "undefined"} -> Thrown
      [] e.t = "error" -> Ok(e.v.message)
      [] OTHER -> Ok("undefined")

NotAnArray == ErrorOf("Error", "Generated code did not return an Array.")
\* throw new Error(`Failed to execute generation logic: ${e.message}`): the
\* message is the pair of the template's text and the interpolated message
Wrapped(message) == ErrorOf("Error", <<"Failed to execute generation logic: ", message>>)

\* the catch block of executeGeneratedCode
Catch(e) ==
    IF MessageOf(e).err
    THEN Raise(ErrorOf("TypeError", "Cannot read properties of null (reading 'message')"))
    ELSE Raise(Wrapped(MessageOf(e).val))

\* mutant: a program's rows are not sized by the count
executeGeneratedCode_OneRow(code, count, flds) ==
    IF IsProgram(code) /\ code.kind \in {"good", "fixed"} THEN Ok(ProgramRows(code, 1))
    ELSE Thrown

\* executeGeneratedCode(code, count, fields): [err, val, thrown]
executeGeneratedCode(code, count, flds) ==
    LET out == RunProgram(code, count, flds)
    IN IF out.kind = "throw" THEN Catch(out.thrown)
       ELSE IF ~out.array THEN Catch(NotAnArray)
       ELSE Ok(out.val)

(***************************************************************************)
(* The handlers of the App component.  A handler that awaits (the remote   *)
(* analysis, the 500 ms delay of a local run, the synthesis call) is two   *)
(* actions: the part before the await, which leaves its closure in         *)
(* analyzeCall or generateCall, and the part after it, which works on the  *)
(* values the closure captured.                                            *)
(***************************************************************************)
MaxRows == 2
MaxEdits == 1

InstructionTexts == {"", "unique ids"}
\* the strategies the rows' selectors are switched to
RowStrategies == {"increment", "static"}
\* what the synthesis call can come back with
ProgramKinds == {"good", "fixed", "nonarray", "throws"}
SynthOutcomes == ProgramKinds \cup {"empty", "fail"}

\* a call of executeGeneratedCode and its arguments
Exec(kind, code, count, flds) ==
    [kind |-> kind, code |-> code, count |-> count, fields |-> flds]
Call(pc, count, flds, code) ==
    [pc |-> pc, count |-> count, fields |-> flds, code |-> code, dirty |-> FALSE]
\* the last step called generateDataGeneratorCode
SynthRequest == [kind |-> "synthesis"]
\* a change that a synthesis call in flight has not seen
MarkChanged(call) == IF call.pc = "synth" THEN [call EXCEPT !.dirty = TRUE] ELSE call

AppInit ==
    /\ HAS_API_KEY \in BOOLEAN
    /\ step = "INPUT"
    /\ inputJson = DEFAULT_JSON
    /\ isAnalyzing = FALSE
    /\ isGenerating = FALSE
    /\ error = NoError
    /\ isLocalMode = ~HAS_API_KEY
    /\ fields = <<>>
    /\ generateCount = MaxRows
    /\ customInstructions = ""
    /\ generatedData = <<>>
    /\ generatedCode = NoCode
    /\ templates = <<>>
    /\ analyzeCall = NoCall
    /\ generateCall = NoCall
    /\ executed = NoExec
    /\ edits = 0
    /\ changed = FALSE
    /\ CodecIdle
    /\ GenIdle
    /\ ClassIdle
    /\ ExecIdle
    /\ StrategyIdle
    /\ InferIdle
    /\ TwiceIdle

\* the sample textarea's onChange
EditSample(text) ==
    /\ step = "INPUT"
    /\ text # inputJson
    /\ inputJson' = text
    /\ generatedCode' = IF ~isLocalMode THEN NoCode ELSE generatedCode
    /\ changed' = IsProgram(generatedCode')
    /\ generateCall' = MarkChanged(generateCall)
    /\ executed' = NoExec
    /\ UNCHANGED <<HAS_API_KEY, edits, step, isAnalyzing, isGenerating, error, isLocalMode,
                   fields, generateCount, customInstructions, generatedData,
                   templates, analyzeCall>>
    /\ UNCHANGED <<codecVars, genVars, classVars, execVars, strategyVars, inferVars, twiceVars>>

\* handleAnalyze up to its return or to the await of analyzeJsonStructure
Analyze ==
    /\ step = "INPUT"
    /\ ~isAnalyzing
    /\ generatedCode' = NoCode
    /\ changed' = FALSE
    /\ executed' = NoExec
    /\ IF JsonParse(inputJson).err
       THEN /\ error' = "Invalid JSON format"
            /\ UNCHANGED <<fields, step, isAnalyzing, analyzeCall>>
       ELSE IF isLocalMode
       THEN /\ error' = NoError
            /\ fields' = analyzeJsonStructureLocal(inputJson).val
            /\ step' = "CONFIGURE"
            /\ UNCHANGED <<isAnalyzing, analyzeCall>>
       ELSE /\ error' = NoError
            /\ isAnalyzing' = TRUE
            /\ analyzeCall' = [pc |-> "remote", text |-> inputJson]
            /\ UNCHANGED <<fields, step>>
    /\ UNCHANGED <<HAS_API_KEY, edits, inputJson, isGenerating, isLocalMode, generateCount,
                   customInstructions, generatedData, templates, generateCall>>
    /\ UNCHANGED <<codecVars, genVars, classVars, execVars, strategyVars, inferVars, twiceVars>>

\* handleAnalyze after the await: the remote analysis answers with the
\* schema of the text it was sent, or fails
AnalyzeReturn(ok) ==
    /\ analyzeCall.pc = "remote"
    /\ IF ok
       THEN /\ fields' = analyzeJsonStructureLocal(analyzeCall.text).val
            /\ step' = "CONFIGURE"
            /\ UNCHANGED error
       ELSE /\ error' = "Empty response from AI"
            /\ UNCHANGED <<fields, step>>
    /\ isAnalyzing' = FALSE
    /\ analyzeCall' = NoCall
    /\ executed' = NoExec
    /\ UNCHANGED <<HAS_API_KEY, edits, inputJson, isGenerating, isLocalMode, generateCount,
                   customInstructions, generatedData, generatedCode, templates,
                   generateCall, changed>>
    /\ UNCHANGED <<codecVars, genVars, classVars, execVars, strategyVars, inferVars, twiceVars>>

\* mutant: every edit made in AI mode empties the slot
CodeAfterFieldChange_AnyEdit(local, oldField, updatedField, code) ==
    IF ~local THEN NoCode ELSE code

\* if (!isLocalMode && isStructuralChange(oldField, updatedField)) setGeneratedCode("")
CodeAfterFieldChange(local, oldField, updatedField, code) ==
    IF ~local /\ isStructuralChange(oldField, updatedField) THEN NoCode ELSE code

\* handleFieldChange(index, updatedField)
handleFieldChange(index, updatedField) ==
    /\ fields' = [fields EXCEPT ![index] = updatedField]
    /\ generatedCode' =
           CodeAfterFieldChange(isLocalMode, fields[index], updatedField, generatedCode)
    /\ changed' = /\ IsProgram(generatedCode')
                  /\ changed \/ isStructuralChange(fields[index], updatedField)
    /\ generateCall' = IF isStructuralChange(fields[index], updatedField)
                       THEN MarkChanged(generateCall) ELSE generateCall

\* SchemaRow's handleStrategyChange: the updated field
StrategyChanged(field, newStrategy) ==
    LET opts == Opts(field)
        fill == /\ newStrategy = "static"
                /\ ~Has(opts, "staticValue") \/ opts.staticValue = Str("")
                /\ field.sampleValue # Undefined
    IN [field EXCEPT !.strategy = newStrategy,
                     !.hasOptions = TRUE,
                     !.options = IF fill THEN SetProp(opts, "staticValue", field.sampleValue)
                                 ELSE opts]

\* SchemaRow's handleOptionChange: the updated field
OptionChanged(field, name, value) ==
    [field EXCEPT !.hasOptions = TRUE, !.options = SetProp(Opts(field), name, value)]

\* the option inputs a row shows, and a value typed into each
OptionInputs(field) ==
    CASE field.strategy = "increment" -> {<<"step", 2>>}
      [] field.strategy = "static" -> {<<"staticValue", Str("42")>>}
      [] OTHER -> {}

\* a row's strategy selector
ChangeStrategy(index, newStrategy) ==
    /\ step = "CONFIGURE"
    /\ edits < MaxEdits
    /\ edits' = edits + 1
    /\ index \in 1..Len(fields)
    /\ newStrategy # fields[index].strategy
    /\ handleFieldChange(index, StrategyChanged(fields[index], newStrategy))
    /\ executed' = NoExec
    /\ UNCHANGED <<HAS_API_KEY, step, inputJson, isAnalyzing, isGenerating, error,
                   isLocalMode, generateCount, customInstructions, generatedData,
                   templates, analyzeCall>>
    /\ UNCHANGED <<codecVars, genVars, classVars, execVars, strategyVars, inferVars, twiceVars>>

\* one of a row's option inputs
ChangeOption(index) ==
    /\ step = "CONFIGURE"
    /\ edits < MaxEdits
    /\ edits' = edits + 1
    /\ index \in 1..Len(fields)
    /\ \E in \in OptionInputs(fields[index]) :
         /\ OptionChanged(fields[index], in[1], in[2]) # fields[index]
         /\ handleFieldChange(index, OptionChanged(fields[index], in[1], in[2]))
    /\ executed' = NoExec
    /\ UNCHANGED <<HAS_API_KEY, step, inputJson, isAnalyzing, isGenerating, error,
                   isLocalMode, generateCount, customInstructions, generatedData,
                   templates, analyzeCall>>
    /\ UNCHANGED <<codecVars, genVars, classVars, execVars, strategyVars, inferVars, twiceVars>>

\* a row's onDelete
DeleteField(index) ==
    /\ step = "CONFIGURE"
    /\ edits < MaxEdits
    /\ edits' = edits + 1
    /\ index \in 1..Len(fields)
    /\ fields' = SubSeq(fields, 1, index - 1) \o SubSeq(fields, index + 1, Len(fields))
    /\ generatedCode' = IF ~isLocalMode THEN NoCode ELSE generatedCode
    /\ changed' = (IsProgram(generatedCode') /\ changed)
    /\ executed' = NoExec
    /\ UNCHANGED <<HAS_API_KEY, step, inputJson, isAnalyzing, isGenerating, error,
                   isLocalMode, generateCount, customInstructions, generatedData,
                   templates, analyzeCall, generateCall>>
    /\ UNCHANGED <<codecVars, genVars, classVars, execVars, strategyVars, inferVars, twiceVars>>

\* the field applyGroupingRule hands to handleFieldChange
GroupingApplied(field, groupStrategy, valuesList, countPerGroup) ==
    LET config == IF groupStrategy = "fixed"
                  THEN [strategy |-> "fixed", countPerGroup |-> countPerGroup,
                        resetFields |-> <<>>]
                  ELSE [strategy |-> "even", resetFields |-> <<>>]
    IN [field EXCEPT
           !.hasOptions = TRUE,
           !.options = SetProp(SetProp(Opts(field), "values", valuesList),
                               "groupingConfig", config)]

\* applyGroupingRule with the helper's inputs: the field chosen, the values
\* "A, B", the strategy, one row per group, no reset field
ApplyGrouping(index, groupStrategy) ==
    /\ step = "CONFIGURE"
    /\ edits < MaxEdits
    /\ edits' = edits + 1
    /\ index \in 1..Len(fields)
    /\ index = FindField(fields, fields[index].key)
    /\ LET valuesList == <<"A", "B">>
           countPerGroup == 1
       IN /\ generateCount' = IF groupStrategy = "fixed"
                              THEN Len(valuesList) * countPerGroup ELSE generateCount
          /\ handleFieldChange(index, GroupingApplied(fields[index], groupStrategy,
                                                      valuesList, countPerGroup))
    /\ executed' = NoExec
    /\ UNCHANGED <<HAS_API_KEY, step, inputJson, isAnalyzing, isGenerating, error,
                   isLocalMode, customInstructions, generatedData, templates,
                   analyzeCall>>
    /\ UNCHANGED <<codecVars, genVars, classVars, execVars, strategyVars, inferVars, twiceVars>>

\* the count slider and the count input
SetGenerateCount(n) ==
    /\ step = "CONFIGURE"
    /\ n # generateCount
    /\ generateCount' = n
    /\ executed' = NoExec
    /\ UNCHANGED <<HAS_API_KEY, edits, step, inputJson, isAnalyzing, isGenerating, error,
                   isLocalMode, fields, customInstructions, generatedData,
                   generatedCode, templates, analyzeCall, generateCall, changed>>
    /\ UNCHANGED <<codecVars, genVars, classVars, execVars, strategyVars, inferVars, twiceVars>>

\* the custom-instructions textarea's onChange (disabled in local mode)
EditInstructions(text) ==
    /\ step = "CONFIGURE"
    /\ ~isLocalMode
    /\ text # customInstructions
    /\ customInstructions' = text
    /\ generatedCode' = NoCode
    /\ changed' = FALSE
    /\ generateCall' = MarkChanged(generateCall)
    /\ executed' = NoExec
    /\ UNCHANGED <<HAS_API_KEY, edits, step, inputJson, isAnalyzing, isGenerating, error,
                   isLocalMode, fields, generateCount, generatedData, templates,
                   analyzeCall>>
    /\ UNCHANGED <<codecVars, genVars, classVars, execVars, strategyVars, inferVars, twiceVars>>

\* the two mode buttons of the header
SetLocalMode(local) ==
    /\ local # isLocalMode
    /\ ~local => HAS_API_KEY
    /\ isLocalMode' = local
    /\ executed' = NoExec
    /\ UNCHANGED <<HAS_API_KEY, edits, step, inputJson, isAnalyzing, isGenerating, error,
                   fields, generateCount, customInstructions, generatedData,
                   generatedCode, templates, analyzeCall, generateCall, changed>>
    /\ UNCHANGED <<codecVars, genVars, classVars, execVars, strategyVars, inferVars, twiceVars>>

\* mutant: handleGenerate starts without emptying the result
RowsAtStart_Kept == generatedData

\* setGeneratedData([]) at the start of handleGenerate
RowsAtStart == <<>>

\* mutant: the generate buttons stay enabled during a run
CanGenerate_DuringRun == step = "CONFIGURE" /\ Len(fields) > 0

\* the generate buttons are enabled
CanGenerate == step = "CONFIGURE" /\ ~isGenerating /\ Len(fields) > 0

\* handleGenerate in local mode, up to the await of the delay
GenerateLocal ==
    /\ CanGenerate
    /\ isLocalMode
    /\ error' = NoError
    /\ isGenerating' = TRUE
    /\ generatedData' = RowsAtStart
    /\ generateCall' = Call("local", generateCount, fields, generatedCode)
    /\ executed' = NoExec
    /\ UNCHANGED <<HAS_API_KEY, edits, step, inputJson, isAnalyzing, isLocalMode, fields,
                   generateCount, customInstructions, generatedCode, templates,
                   analyzeCall, changed>>
    /\ UNCHANGED <<codecVars, genVars, classVars, execVars, strategyVars, inferVars, twiceVars>>

\* handleGenerate in local mode, after the delay
GenerateLocalFinish ==
    /\ generateCall.pc = "local"
    /\ LET data == generateLocalData(generateCall.count, generateCall.fields)
       IN IF data.err
          THEN /\ error' = "TypeError"
               /\ UNCHANGED <<generatedData, generatedCode, step, changed>>
          ELSE /\ generatedData' = data.val
               /\ generatedCode' = LocalPlaceholder
               /\ changed' = FALSE
               /\ step' = "RESULT"
               /\ UNCHANGED error
    /\ isGenerating' = FALSE
    /\ generateCall' = NoCall
    /\ executed' = NoExec
    /\ UNCHANGED <<HAS_API_KEY, edits, inputJson, isAnalyzing, isLocalMode, fields,
                   generateCount, customInstructions, templates, analyzeCall>>
    /\ UNCHANGED <<codecVars, genVars, classVars, execVars, strategyVars, inferVars, twiceVars>>

\* handleGenerate(false) in AI mode with a non-empty slot: no await is reached
GenerateCached ==
    /\ CanGenerate
    /\ ~isLocalMode
    /\ generatedCode # NoCode
    /\ LET data == executeGeneratedCode(generatedCode, generateCount, fields)
       IN IF data.err
          THEN /\ error' = "Failed to execute generation logic"
               /\ generatedData' = RowsAtStart
               /\ UNCHANGED step
          ELSE /\ error' = NoError
               /\ generatedData' = data.val
               /\ step' = "RESULT"
    /\ executed' = Exec("cached", generatedCode, generateCount, fields)
    /\ UNCHANGED <<HAS_API_KEY, edits, inputJson, isAnalyzing, isGenerating, isLocalMode,
                   fields, generateCount, customInstructions, generatedCode, templates,
                   analyzeCall, generateCall, changed>>
    /\ UNCHANGED <<codecVars, genVars, classVars, execVars, strategyVars, inferVars, twiceVars>>

\* handleGenerate in AI mode with an empty slot, or handleGenerate(true) (the
\* refresh button, shown when the slot is not empty), up to the await of
\* generateDataGeneratorCode
GenerateSynth(forceRefresh) ==
    /\ CanGenerate
    /\ ~isLocalMode
    /\ forceRefresh = (generatedCode # NoCode)
    /\ error' = NoError
    /\ isGenerating' = TRUE
    /\ generatedData' = RowsAtStart
    /\ generateCall' = Call("synth", generateCount, fields, generatedCode)
    /\ executed' = SynthRequest
    /\ UNCHANGED <<HAS_API_KEY, edits, step, inputJson, isAnalyzing, isLocalMode, fields,
                   generateCount, customInstructions, generatedCode, templates,
                   analyzeCall, changed>>
    /\ UNCHANGED <<codecVars, genVars, classVars, execVars, strategyVars, inferVars, twiceVars>>

\* handleGenerate after the await of generateDataGeneratorCode: the call
\* failed, or it returned a text (the empty one included), which is stored
\* and then executed with the count and the fields of the closure
SynthReturn(outcome) ==
    /\ generateCall.pc = "synth"
    /\ IF outcome = "fail"
       THEN /\ error' = "Code Generation Error"
            /\ executed' = NoExec
            /\ UNCHANGED <<generatedCode, generatedData, step, changed>>
       ELSE LET code == IF outcome = "empty" THEN NoCode
                        ELSE Program(outcome)
                data == executeGeneratedCode(code, generateCall.count, generateCall.fields)
            IN /\ generatedCode' = code
               /\ changed' = (IsProgram(code) /\ generateCall.dirty)
               /\ executed' = Exec("fresh", code, generateCall.count, generateCall.fields)
               /\ IF data.err
                  THEN /\ error' = "Failed to execute generation logic"
                       /\ UNCHANGED <<generatedData, step>>
                  ELSE /\ generatedData' = data.val
                       /\ step' = "RESULT"
                       /\ UNCHANGED error
    /\ isGenerating' = FALSE
    /\ generateCall' = NoCall
    /\ UNCHANGED <<HAS_API_KEY, edits, inputJson, isAnalyzing, isLocalMode, fields,
                   generateCount, customInstructions, templates, analyzeCall>>
    /\ UNCHANGED <<codecVars, genVars, classVars, execVars, strategyVars, inferVars, twiceVars>>

\* the header's logo, and the back button of the CONFIGURE step
GoToInput ==
    /\ step # "INPUT"
    /\ step' = "INPUT"
    /\ executed' = NoExec
    /\ UNCHANGED <<HAS_API_KEY, edits, inputJson, isAnalyzing, isGenerating, error,
                   isLocalMode, fields, generateCount, customInstructions,
                   generatedData, generatedCode, templates, analyzeCall, generateCall, changed>>
    /\ UNCHANGED <<codecVars, genVars, classVars, execVars, strategyVars, inferVars, twiceVars>>

\* the back button of the RESULT step
BackToConfigure ==
    /\ step = "RESULT"
    /\ step' = "CONFIGURE"
    /\ executed' = NoExec
    /\ UNCHANGED <<HAS_API_KEY, edits, inputJson, isAnalyzing, isGenerating, error,
                   isLocalMode, fields, generateCount, customInstructions,
                   generatedData, generatedCode, templates, analyzeCall, generateCall, changed>>
    /\ UNCHANGED <<codecVars, genVars, classVars, execVars, strategyVars, inferVars, twiceVars>>

\* confirmReset, behind the reset button of the RESULT step
ConfirmReset ==
    /\ step = "RESULT"
    /\ step' = "INPUT"
    /\ generatedCode' = NoCode
    /\ generatedData' = <<>>
    /\ fields' = <<>>
    /\ inputJson' = DEFAULT_JSON
    /\ customInstructions' = ""
    /\ changed' = FALSE
    /\ executed' = NoExec
    /\ UNCHANGED <<HAS_API_KEY, edits, isAnalyzing, isGenerating, error, isLocalMode,
                   generateCount, templates, analyzeCall, generateCall>>
    /\ UNCHANGED <<codecVars, genVars, classVars, execVars, strategyVars, inferVars, twiceVars>>

AppNext ==
    \/ \E text \in SampleTexts : EditSample(text)
    \/ Analyze
    \/ \E ok \in BOOLEAN : AnalyzeReturn(ok)
    \/ \E index \in 1..2, st \in RowStrategies : ChangeStrategy(index, st)
    \/ \E index \in 1..2 : ChangeOption(index)
    \/ \E index \in 1..2 : DeleteField(index)
    \/ \E index \in 1..2, gs \in {"fixed", "even"} : ApplyGrouping(index, gs)
    \/ \E n \in 1..MaxRows : SetGenerateCount(n)
    \/ \E text \in InstructionTexts : EditInstructions(text)
    \/ \E local \in BOOLEAN : SetLocalMode(local)
    \/ GenerateLocal
    \/ GenerateLocalFinish
    \/ GenerateCached
    \/ \E forceRefresh \in BOOLEAN : GenerateSynth(forceRefresh)
    \/ \E outcome \in SynthOutcomes : SynthReturn(outcome)
    \/ GoToInput
    \/ BackToConfigure
    \/ ConfirmReset

SpecApp == AppInit /\ [][AppNext]_vars

(***************************************************************************)
(* One call of executeGeneratedCode, with any source text.                 *)
(***************************************************************************)
ExecKinds == ProgramKinds \cup {"throwsText", "throwsNull", "syntax"}
ExecCodes == {NoCode, LocalPlaceholder} \cup {Program(kind) : kind \in ExecKinds}

ExecInit ==
    /\ epc = "start"
    /\ ecode \in ExecCodes
    /\ ecount \in 0..MaxCount
    /\ efields \in {<<>>} \cup {<<f>> : f \in IdFields}
    /\ eresult = Ok(Undefined)
    /\ CodecIdle
    /\ GenIdle
    /\ ClassIdle
    /\ AppIdle
    /\ StrategyIdle
    /\ InferIdle
    /\ TwiceIdle

Execute ==
    /\ epc = "start"
    /\ eresult' = executeGeneratedCode(ecode, ecount, efields)
    /\ epc' = "done"
    /\ UNCHANGED <<ecode, ecount, efields>>
    /\ UNCHANGED <<codecVars, genVars, classVars, appVars, strategyVars, inferVars, twiceVars>>

ExecNext == Execute

SpecExec == ExecInit /\ [][ExecNext]_vars

(***************************************************************************)
(* Properties of the App component's cached-program slot.                  *)
(***************************************************************************)
\* the step runs executeGeneratedCode and the program throws or returns a
\* non-array
FailedRun ==
    /\ GenerateCached \/ \E outcome \in SynthOutcomes : SynthReturn(outcome)
    /\ executed'.kind \in {"cached", "fresh"}
    /\ executeGeneratedCode(executed'.code, executed'.count, executed'.fields).err
\* the slot as it was when the handleGenerate call of the step started
SlotAtStart == IF generateCall.pc = "synth" THEN generateCall.code ELSE generatedCode

\* C7: in AI mode, after a structural field edit, a change of the sample text
\* or a change of the custom instructions (mode switches in between
\* included), no run executes from the cache a program that was requested
\* before that change.
C7_NoStaleCachedRun ==
    (executed.kind = "cached" /\ IsProgram(executed.code)) => ~changed

\* a step of handleFieldChange(index, ...) made by one of the rows' controls
\* or by the grouping helper
FieldChangeStep(index) ==
    \/ ChangeOption(index)
    \/ \E st \in RowStrategies : ChangeStrategy(index, st)
    \/ \E gs \in {"fixed", "even"} : ApplyGrouping(index, gs)

\* the fields the controls can hand to handleFieldChange for a row
UpdatedFields(field) ==
    {OptionChanged(field, in[1], in[2]) : in \in OptionInputs(field)}
    \cup {StrategyChanged(field, st) : st \in RowStrategies}
    \cup {GroupingApplied(field, gs, <<"A", "B">>, 1) : gs \in {"fixed", "even"}}

\* C8: handleFieldChange with an edit that isStructuralChange classifies as
\* parametric replaces that one entry of the field list and leaves the
\* cached-program slot, the other entries, the sample text and the mode as
\* they were.
C8_ParametricEdit ==
    \A index \in 1..2 :
        (FieldChangeStep(index) /\ ~isStructuralChange(fields[index], fields'[index])) =>
            /\ generatedCode' = generatedCode
            /\ inputJson' = inputJson
            /\ isLocalMode' = isLocalMode
            /\ fields'[index] \in UpdatedFields(fields[index])
            /\ fields' = [fields EXCEPT ![index] = fields'[index]]

C8_ParametricEditFrame == [][C8_ParametricEdit]_vars

\* the step option of "id" was edited in AI mode and the program is still cached
C8_Witness ==
    /\ ~isLocalMode
    /\ step = "CONFIGURE"
    /\ edits = 1
    /\ IsProgram(generatedCode)
    /\ Len(fields) = 2
    /\ fields[1].strategy = "increment" /\ fields[1].options.step = 2
    /\ fields[2] = analyzeJsonStructureLocal(DEFAULT_JSON).val[2]

\* what a run from the cache does, whatever the program
CachedRun ==
    GenerateCached =>
        /\ executed'.kind = "cached"
        /\ executed'.code = generatedCode
        /\ executed'.count = generateCount
        /\ executed'.fields = fields
        /\ generateCall' = generateCall
        /\ generatedCode' = generatedCode

\* C9 as stated: every run from the cache returns an array sized by the count.
C9_CachedRunSized ==
    [][CachedRun /\ (GenerateCached => Len(generatedData') = generateCount)]_vars

\* C9: in AI mode with a non-empty slot and no forced refresh, handleGenerate
\* calls no synthesis, leaves the slot as it is and executes the cached source
\* with the current count and the current field list; when the cached
\* program is well formed, the run's array has as many rows as its count.
C9_CachedRun ==
    [][/\ CachedRun
       /\ (GenerateCached /\ generatedCode = Program("good")) =>
              /\ step' = "RESULT"
              /\ Len(generatedData') = generateCount]_vars

\* a second run from the cache, with the count lowered from MaxRows to 1
C9_Witness ==
    /\ executed.kind = "cached"
    /\ executed.code = Program("good")
    /\ executed.count = 1
    /\ MaxRows > 1
    /\ step = "RESULT"
    /\ Len(generatedData) = 1
    /\ generatedCode = Program("good")

\* C10: when executing the program fails during handleGenerate, the slot
\* after the run holds the source it held before the run started, for a
\* program taken from the cache and for one synthesized in that run.
C10_FailedRunKeepsSlot == [][FailedRun => generatedCode' = SlotAtStart]_vars

(***************************************************************************)
(* Properties of the way a run of handleGenerate ends.                     *)
(***************************************************************************)
\* the synthesis call of the step throws, or comes back with no text
SynthFailure == SynthReturn("fail") \/ SynthReturn("empty")

\* C11: when the synthesis call fails or returns empty content, the run ends
\* with an error, executes no program and leaves the cached-program slot as
\* it was (a program cached before a forced refresh is still in the slot).
C11_SynthFailureKeepsSlot ==
    [][SynthFailure =>
          /\ error' # NoError
          /\ step' = step
          /\ executed'.kind = "none" \/ ~IsProgram(executed'.code)
          /\ generatedCode' = generatedCode]_vars

(***************************************************************************)
(* Properties of executeGeneratedCode.                                     *)
(***************************************************************************)
\* the message of the failure under a failed call: the message of the Error
\* the program threw, the text of what else it threw, or the complaint about
\* a result that is no array
FailureMessage(code, count, flds) ==
    LET out == RunProgram(code, count, flds)
    IN CASE out.kind = "return" -> NotAnArray.v.message
         [] out.thrown.t = "error" -> out.thrown.v.message
         [] out.thrown.t = "string" -> out.thrown.v
         [] OTHER -> out.thrown.t

\* C12: executeGeneratedCode returns an array, or throws an error that wraps
\* the message of the underlying failure; it returns no non-array and lets no
\* other exception out.
C12_ExecutorWraps ==
    epc = "done" =>
        IF eresult.err
        THEN eresult.thrown = Wrapped(FailureMessage(ecode, ecount, efields))
        ELSE /\ RunProgram(ecode, ecount, efields).kind = "return"
             /\ RunProgram(ecode, ecount, efields).array
             /\ eresult.val = RunProgram(ecode, ecount, efields).val

\* the step is the end of a run of handleGenerate
RunEnds ==
    \/ GenerateLocalFinish
    \/ GenerateCached
    \/ \E outcome \in SynthOutcomes : SynthReturn(outcome)
\* what the run's generator returned or threw: [err, val]
RunOutcome ==
    IF generateCall.pc = "local"
    THEN generateLocalData(generateCall.count, generateCall.fields)
    ELSE IF executed'.kind \in {"cached", "fresh"}
    THEN executeGeneratedCode(executed'.code, executed'.count, executed'.fields)
    ELSE Thrown
RunSucceeds ==
    /\ ~RunOutcome.err
    /\ generatedData' = RunOutcome.val
    /\ step' = "RESULT"
RunFails ==
    /\ RunOutcome.err
    /\ error' # NoError
    /\ generatedData' = <<>>
    /\ step' = step
    /\ step' # "RESULT"

\* C13: a run of handleGenerate ends in exactly one of two ways: it succeeds,
\* the result is the whole array of the run and the step becomes RESULT; or
\* it fails, the error is set, the result is empty and the step stays where
\* it was.
C13_RunOutcome ==
    [][RunEnds => /\ RunSucceeds \/ RunFails
                  /\ ~(RunSucceeds /\ RunFails)]_vars

\* a run from the cache failed after a local run had filled the result
C13_Witness ==
    /\ executed.kind = "cached"
    /\ executed.code = LocalPlaceholder
    /\ error # NoError
    /\ generatedData = <<>>
    /\ step = "CONFIGURE"

(***************************************************************************)
(* The runs of generateLocalData with one static field "flag": every       *)
(* declared type, and a staticValue typed into the row (a string), taken   *)
(* from the sample (a number, a boolean, null) or not set.                 *)
(***************************************************************************)
FlagKey == <<"flag">>
StaticTypes == {"number", "boolean", "string"}
StaticValues ==
    {Str("42"), Str("0"), Str(""), Str("abc"), Str("true"), Str("false"),
     Num(0), Num(7), Bool(TRUE), Bool(FALSE), Null}
StaticFields ==
    {Field(FlagKey, type, "static", [staticValue |-> v]) :
        type \in StaticTypes, v \in StaticValues}
    \cup {Field(FlagKey, type, "static", NoProps) : type \in StaticTypes}
    \cup {[key |-> FlagKey, type |-> type, strategy |-> "static",
           hasOptions |-> FALSE, options |-> NoProps] : type \in StaticTypes}

StaticInit ==
    /\ gpc = "start"
    /\ gcount \in 0..MaxCount
    /\ gfields \in {<<f>> : f \in StaticFields}
    /\ gi = 0
    /\ gstate = NoProps
    /\ result = <<>>
    /\ CodecIdle
    /\ ClassIdle
    /\ AppIdle
    /\ ExecIdle
    /\ StrategyIdle
    /\ InferIdle
    /\ TwiceIdle

SpecStatic == StaticInit /\ [][GenNext]_vars

\* the configured staticValue of a field, Undefined when it is not set
StaticValueOf(field) ==
    IF Has(Opts(field), "staticValue") THEN Opts(field).staticValue ELSE Undefined

\* the value the claim expects for a configured staticValue v
CoercedAny(type, v) ==
    CASE type = "number" -> IF ToNumber(v).nan THEN v ELSE Num(ToNumber(v).n)
      [] type = "boolean" ->
           CASE v = Str("true") -> Bool(TRUE)
             [] v = Str("false") -> Bool(FALSE)
             [] OTHER -> Bool(Truthy(v))
      [] OTHER -> v

\* C14 as stated: every configured staticValue is coerced, null included.
C14_StaticCoercionAny ==
    /\ gpc # "threw"
    /\ gpc = "done" =>
         \A i \in 0..(gcount - 1) :
             StaticValueOf(gfields[1]) # Undefined =>
                 Emitted(i, gfields[1]) =
                     CoercedAny(gfields[1].type, StaticValueOf(gfields[1]))

\* C14: for a static field, generateLocalData coerces a configured, non-null
\* staticValue to the declared type: with type number a value that Number()
\* parses becomes that number and one that does not is emitted unchanged;
\* with type boolean "true" and "false" become true and false and any other
\* value its truthiness; a null or missing staticValue is emitted as it is;
\* no case throws.
C14_StaticCoercion ==
    /\ gpc # "threw"
    /\ gpc = "done" =>
         /\ Len(result) = gcount
         /\ \A i \in 0..(gcount - 1) :
              Emitted(i, gfields[1]) =
                  IF StaticValueOf(gfields[1]) \in {Undefined, Null}
                  THEN StaticValueOf(gfields[1])
                  ELSE CoercedAny(gfields[1].type, StaticValueOf(gfields[1]))

\* a run that turned the text "42" of a number field into the number 42
C14_Witness ==
    /\ gpc = "done"
    /\ gcount = 2
    /\ gfields[1].strategy = "static"
    /\ gfields[1].type = "number"
    /\ StaticValueOf(gfields[1]) = Str("42")
    /\ Emitted(0, gfields[1]) = Num(42)
    /\ Emitted(1, gfields[1]) = Num(42)

(***************************************************************************)
(* The runs of generateLocalData with fields that are partially            *)
(* configured: one or two fields with different keys, a key that is a path *)
(* prefix of the other included; no options map, an empty one, an enum or  *)
(* a grouping without values, a grouping without countPerGroup or          *)
(* resetFields, a reset key that names no field.                           *)
(***************************************************************************)
RobustKeys == {<<"a">>, <<"a", "b">>, <<"a", "0">>, <<"b">>}
BareStrategies ==
    {"increment", "random_int", "enum", "static", "ai_context", "regex", "uuid", "date"}
RobustConfigs ==
    {[strategy |-> st, hasOptions |-> FALSE, options |-> NoProps] : st \in BareStrategies}
    \cup {[strategy |-> st, hasOptions |-> TRUE, options |-> NoProps] :
            st \in {"increment", "enum"}}
    \cup {[strategy |-> "enum", hasOptions |-> TRUE, options |-> [values |-> <<>>]],
          [strategy |-> "static", hasOptions |-> TRUE, options |-> [staticValue |-> Null]],
          [strategy |-> "enum", hasOptions |-> TRUE,
           options |-> [values |-> <<>>,
                        groupingConfig |-> [strategy |-> "even",
                                            resetFields |-> <<GhostKey>>]]],
          [strategy |-> "enum", hasOptions |-> TRUE,
           options |-> [groupingConfig |-> [strategy |-> "even"]]],
          [strategy |-> "static", hasOptions |-> TRUE,
           options |-> [values |-> <<"A", "B">>,
                        groupingConfig |-> [strategy |-> "fixed",
                                            resetFields |-> <<GhostKey>>]]]}
RobustFields ==
    {[key |-> k, type |-> "string", strategy |-> c.strategy,
      hasOptions |-> c.hasOptions, options |-> c.options] :
        k \in RobustKeys, c \in RobustConfigs}
RobustLists ==
    {<<f>> : f \in RobustFields}
    \cup {fg \in {<<f, g>> : f \in RobustFields, g \in RobustFields} :
             fg[1].key # fg[2].key}

RobustInit ==
    /\ gpc = "start"
    /\ gcount \in 0..MaxRobustCount
    /\ gfields \in RobustLists
    /\ gi = 0
    /\ gstate = NoProps
    /\ result = <<>>
    /\ CodecIdle
    /\ ClassIdle
    /\ AppIdle
    /\ ExecIdle
    /\ StrategyIdle
    /\ InferIdle
    /\ TwiceIdle

SpecRobust == RobustInit /\ [][GenNext]_vars

\* key p is a proper path prefix of key q
IsPathPrefix(p, q) == Len(p) < Len(q) /\ SubSeq(q, 1, Len(p)) = p
\* a field's key is a path prefix of the key of a later field
PrefixBeforeExtension(flds) ==
    \E m, n \in 1..Len(flds) : m < n /\ IsPathPrefix(flds[m].key, flds[n].key)

C20_NeverRaises == gpc # "threw"

(***************************************************************************)
(* One call of determineStrategy: a property name at the top level or      *)
(* nested, in any case, and a value of any JSON kind.                      *)
(***************************************************************************)
StrategyKeys ==
    {<<"id">>, <<"ID">>, <<"user_id">>, <<"USER_ID">>, <<"userId">>, <<"qty">>,
     <<"rating">>, <<"user", "id">>, <<"a", "user_id">>, <<"a", "userId">>}
StrategyNumbers ==
    {Num(-3), Num(0), Num(7), Num(10), Num(50), Num(60),
     Dec(8), Dec(4500), Dec(-2500), Dec(60500)}
StrategyValues == StrategyNumbers \cup {Str("x"), Bool(TRUE), Null}

StrategyInit ==
    /\ dpc = "start"
    /\ dkey \in StrategyKeys
    /\ dvalue \in StrategyValues
    /\ dresult = NoProps
    /\ CodecIdle
    /\ GenIdle
    /\ ClassIdle
    /\ AppIdle
    /\ ExecIdle
    /\ InferIdle
    /\ TwiceIdle

Determine ==
    /\ dpc = "start"
    /\ dresult' = determineStrategy(dkey, dvalue)
    /\ dpc' = "done"
    /\ UNCHANGED <<dkey, dvalue>>
    /\ UNCHANGED <<codecVars, genVars, classVars, appVars, execVars, inferVars, twiceVars>>

StrategyNext == Determine

SpecStrategy == StrategyInit /\ [][StrategyNext]_vars

\* the keys the rule of the id-like keys names: `id`, a key that ends with
\* `_id`, a key that ends with `Id`
NamedIdKey(key) == key = <<"id">> \/ IdSuffixes(key[Len(key)]) # {}

\* C16 as stated: the upper bound is the larger of 2v and 100.
C16_BoundsMax100 ==
    (dpc = "done" /\ dvalue.t = "number") =>
        IF IsInteger(dvalue)
        THEN ~(NamedIdKey(dkey) \/ IsIdKey(dkey)) =>
                 dresult = [strategy |-> "random_int", hasOptions |-> TRUE,
                            options |-> [min |-> Num(0),
                                         max |-> Num(Max(2 * dvalue.v, 100))]]
        ELSE dresult = [strategy |-> "random_float", hasOptions |-> TRUE,
                        options |-> [min |-> Num(0),
                                     max |-> NumberOf(Max(2 * dvalue.v, 100000)),
                                     precision |-> 2]]

\* C16: local inference maps every integer sample value v whose key is not
\* id-like to random_int with min = 0 and max = 2v, or 100 when v is 0, and
\* every non-integer number v to random_float with min = 0, max = 2v and
\* precision 2.
C16_Bounds ==
    (dpc = "done" /\ dvalue.t = "number") =>
        IF IsInteger(dvalue)
        THEN ~IsIdKey(dkey) =>
                 dresult = [strategy |-> "random_int", hasOptions |-> TRUE,
                            options |-> [min |-> Num(0),
                                         max |-> IF dvalue.v = 0 THEN Num(100)
                                                 ELSE Num(2 * dvalue.v)]]
        ELSE dresult = [strategy |-> "random_float", hasOptions |-> TRUE,
                        options |-> [min |-> Num(0),
                                     max |-> NumberOf(2 * dvalue.v),
                                     precision |-> 2]]

\* the sample value 10 under the key qty was given the range [0, 20]
C16_Witness ==
    /\ dpc = "done"
    /\ dkey = <<"qty">>
    /\ dvalue = Num(10)
    /\ dresult.strategy = "random_int"
    /\ dresult.options.max = Num(20)

\* C17: local inference maps every integer sample value whose key is `id`,
\* ends with `_id` or ends with `Id` to increment with start = the value and
\* step = 1, before the random_int rule is tried.
C17_IdKeys ==
    (dpc = "done" /\ dvalue.t = "number" /\ IsInteger(dvalue) /\ NamedIdKey(dkey)) =>
        dresult = [strategy |-> "increment", hasOptions |-> TRUE,
                   options |-> [start |-> dvalue.v, step |-> 1]]

(***************************************************************************)
(* The local pipeline: analyzeJsonStructureLocal on a sample text, then    *)
(* generateLocalData on the fields it returned.                            *)
(***************************************************************************)
MaxInferCount == 3

InferInit ==
    /\ ipc = "start"
    /\ ijson \in WellFormedTexts \cup BrokenTexts
    /\ inferred = <<>>
    /\ CodecIdle
    /\ GenIdle
    /\ ClassIdle
    /\ AppIdle
    /\ ExecIdle
    /\ StrategyIdle
    /\ TwiceIdle

\* result = analyzeJsonStructureLocal(...)
AnalyzeLocal ==
    /\ ipc = "start"
    /\ LET res == analyzeJsonStructureLocal(ijson)
       IN IF res.err
          THEN ipc' = "threw" /\ UNCHANGED inferred
          ELSE ipc' = "done" /\ inferred' = res.val
    /\ UNCHANGED ijson
    /\ UNCHANGED <<codecVars, genVars, classVars, appVars, execVars, strategyVars, twiceVars>>

\* generateLocalData(generateCount, fields) is called with the fields inferred
StartRun(count) ==
    /\ ipc = "done"
    /\ gpc = "idle"
    /\ gpc' = "start"
    /\ gcount' = count
    /\ gfields' = inferred
    /\ UNCHANGED <<gi, gstate, result>>
    /\ UNCHANGED <<codecVars, classVars, appVars, execVars, strategyVars, inferVars, twiceVars>>

InferNext ==
    \/ AnalyzeLocal
    \/ \E count \in 0..MaxInferCount : StartRun(count)
    \/ GenStart
    \/ GenRow
    \/ GenReturn

SpecInfer == InferInit /\ [][InferNext]_vars

\* C19: analyzeJsonStructureLocal raises exactly when the sample text is not
\* well-formed JSON, and then nothing has been inferred; for every
\* well-formed text, with an object, an array, a scalar or null at the root,
\* it returns a field list.
C19_ParseError ==
    ipc # "start" =>
        /\ ipc = "threw" <=> ijson \notin WellFormedTexts
        /\ ipc = "threw" => inferred = <<>>
        /\ ipc = "done" =>
             \A n \in 1..Len(inferred) :
                 inferred[n].strategy = determineStrategy(inferred[n].key,
                                                          inferred[n].sampleValue).strategy

\* the text "ab", a scalar at the root, was analyzed: one field per character
C19_Witness ==
    /\ ipc = "done"
    /\ ijson = "\"ab\""
    /\ Len(inferred) = 2
    /\ inferred[1].key = <<"0">>
    /\ inferred[1].strategy = "ai_context"

\* the fields of a list that the rule of the id-like keys names, and its
\* fields with a sample value that is a non-integer number above 0
IdLikeFields(flds) ==
    {n \in 1..Len(flds) : /\ flds[n].sampleValue.t = "number"
                          /\ IsInteger(flds[n].sampleValue)
                          /\ NamedIdKey(flds[n].key)}
FloatFields(flds) ==
    {n \in 1..Len(flds) : /\ flds[n].sampleValue.t = "number"
                          /\ ~IsInteger(flds[n].sampleValue)
                          /\ flds[n].sampleValue.v > 0}

\* C18: end to end in local mode, for a sample with an id-like integer field
\* of value v and a non-integer field of value r > 0, inference yields
\* increment(start = v, step = 1) and random_float(min = 0, max = 2r,
\* precision = 2), and the rows hold the ids v, v+1, ... in row order and
\* floats within [0, 2r].
C18_EndToEnd ==
    (gpc = "done" /\ IdLikeFields(gfields) # {} /\ FloatFields(gfields) # {}) =>
        /\ Len(result) = gcount
        /\ \A n \in IdLikeFields(gfields) :
             /\ gfields[n].strategy = "increment"
             /\ gfields[n].options = [start |-> gfields[n].sampleValue.v, step |-> 1]
             /\ \A i \in 0..(gcount - 1) :
                  Emitted(i, gfields[n]) = Num(gfields[n].sampleValue.v + i)
        /\ \A n \in FloatFields(gfields) :
             /\ gfields[n].strategy = "random_float"
             /\ gfields[n].options =
                    [min |-> Num(0), max |-> NumberOf(2 * gfields[n].sampleValue.v),
                     precision |-> 2]
             /\ \A i \in 0..(gcount - 1) :
                  /\ Emitted(i, gfields[n]).t = "number"
                  /\ Thousandths(Emitted(i, gfields[n])) >= 0
                  /\ Thousandths(Emitted(i, gfields[n])) <= 2 * gfields[n].sampleValue.v

(***************************************************************************)
(* Two calls of generateLocalData with the same arguments, one after the   *)
(* other.  What the first call left in its locals is still in gstate and   *)
(* result when the second call starts.                                     *)
(***************************************************************************)
TwiceInit ==
    /\ gpc = "start"
    /\ gcount \in 0..MaxCount
    /\ gfields \in FieldLists
    /\ gi = 0
    /\ gstate = NoProps
    /\ result = <<>>
    /\ runNo = 1
    /\ firstResult = <<>>
    /\ CodecIdle
    /\ ClassIdle
    /\ AppIdle
    /\ ExecIdle
    /\ StrategyIdle
    /\ InferIdle

\* the caller keeps the first array and calls again with the same arguments
CallAgain ==
    /\ gpc = "done"
    /\ runNo = 1
    /\ runNo' = 2
    /\ firstResult' = result
    /\ gpc' = "start"
    /\ UNCHANGED <<gcount, gfields, gi, gstate, result>>
    /\ UNCHANGED <<codecVars, classVars, appVars, execVars, strategyVars, inferVars>>

TwiceNext == GenStart \/ GenRow \/ GenReturn \/ CallAgain

SpecTwice == TwiceInit /\ [][TwiceNext]_vars

\* C21: the counter state is created fresh per run: the second of two calls
\* of generateLocalData with the same count and the same field list starts
\* from the counters' start values and returns the values the first one
\* returned, for every increment, static and grouping field.
C21_FreshState ==
    runNo = 2 =>
        /\ (gpc = "run" /\ gi = 0) => gstate = InitState(gfields, NoProps)
        /\ gpc = "done" =>
             /\ Len(result) = Len(firstResult)
             /\ \A i \in 0..(gcount - 1) : \A n \in 1..Len(gfields) :
                  Emitted(i, gfields[n]) = GetPath(firstResult[i + 1], gfields[n].key)

\* a second run of a counter with step 2 ended, with the rows of the first
C21_Witness ==
    /\ runNo = 2
    /\ gpc = "done"
    /\ gcount = 3
    /\ gfields[1].strategy = "increment"
    /\ Opts(gfields[1]) = [start |-> 2, step |-> 2]
    /\ Emitted(2, gfields[1]) = Num(6)
    /\ firstResult = result

(***************************************************************************)
(* Presets.  The list of presets is read from localStorage when the        *)
(* component mounts, so a session can start with a preset that an earlier  *)
(* session saved; handleSaveTemplate appends one, handleLoadTemplate       *)
(* restores one, handleDeleteTemplate drops one.  A preset's place in the  *)
(* list stands for its id.                                                 *)
(***************************************************************************)
MaxTemplates == 1
TemplateNames == {"preset"}

\* mutant: the slot is saved as it is, in either mode
SavedCode_AsHeld(local, code) == code

\* generatedCode: isLocalMode ? "" : generatedCode
SavedCode(local, code) == IF local THEN NoCode ELSE code

\* the config of the Template that handleSaveTemplate builds
CapturedConfig ==
    [inputJson |-> inputJson,
     fields |-> fields,
     customInstructions |-> customInstructions,
     generateCount |-> generateCount,
     generatedCode |-> SavedCode(isLocalMode, generatedCode)]

\* a preset of an earlier session: a sample, its analysis, instructions, a
\* count and the program that was synthesized for them
StoredTemplate ==
    [name |-> "stored",
     config |-> [inputJson |-> TypedJson,
                 fields |-> analyzeJsonStructureLocal(TypedJson).val,
                 customInstructions |-> "unique ids",
                 generateCount |-> 1,
                 generatedCode |-> Program("good")]]

\* mutant: a preset with a program switches to AI mode without a key
ModeAfterLoad_NoKeyCheck(hasKey, code, local) ==
    IF code # NoCode THEN FALSE ELSE local

\* if (t.config.generatedCode) { ...; if (HAS_API_KEY) setIsLocalMode(false) }
ModeAfterLoad(hasKey, code, local) ==
    IF code # NoCode /\ hasKey THEN FALSE ELSE local

PresetInit ==
    /\ HAS_API_KEY \in BOOLEAN
    /\ step = "INPUT"
    /\ inputJson = DEFAULT_JSON
    /\ isAnalyzing = FALSE
    /\ isGenerating = FALSE
    /\ error = NoError
    /\ isLocalMode = ~HAS_API_KEY
    /\ fields = <<>>
    /\ generateCount = MaxRows
    /\ customInstructions = ""
    /\ generatedData = <<>>
    /\ generatedCode = NoCode
    /\ templates \in {<<>>, <<StoredTemplate>>}
    /\ analyzeCall = NoCall
    /\ generateCall = NoCall
    /\ executed = NoExec
    /\ edits = 0
    /\ changed = FALSE
    /\ CodecIdle
    /\ GenIdle
    /\ ClassIdle
    /\ ExecIdle
    /\ StrategyIdle
    /\ InferIdle
    /\ TwiceIdle

\* handleSaveTemplate with the name typed into the modal of the RESULT step
SaveTemplate(newTemplateName) ==
    /\ step = "RESULT"
    /\ newTemplateName # ""
    /\ Len(templates) < MaxTemplates
    /\ templates' = Append(templates, [name |-> newTemplateName, config |-> CapturedConfig])
    /\ executed' = NoExec
    /\ UNCHANGED <<HAS_API_KEY, edits, step, inputJson, isAnalyzing, isGenerating, error,
                   isLocalMode, fields, generateCount, customInstructions, generatedData,
                   generatedCode, analyzeCall, generateCall, changed>>
    /\ UNCHANGED <<codecVars, genVars, classVars, execVars, strategyVars, inferVars, twiceVars>>

\* handleLoadTemplate(templates[n]), a click on a preset of the INPUT step
LoadTemplate(n) ==
    /\ step = "INPUT"
    /\ n \in 1..Len(templates)
    /\ LET config == templates[n].config
       IN /\ inputJson' = config.inputJson
          /\ fields' = config.fields
          /\ customInstructions' = config.customInstructions
          /\ generateCount' = config.generateCount
          /\ generatedCode' = IF config.generatedCode # NoCode THEN config.generatedCode
                              ELSE NoCode
          /\ isLocalMode' = ModeAfterLoad(HAS_API_KEY, config.generatedCode, isLocalMode)
    /\ step' = "CONFIGURE"
    /\ changed' = FALSE
    /\ generateCall' = MarkChanged(generateCall)
    /\ executed' = NoExec
    /\ UNCHANGED <<HAS_API_KEY, edits, isAnalyzing, isGenerating, error, generatedData,
                   templates, analyzeCall>>
    /\ UNCHANGED <<codecVars, genVars, classVars, execVars, strategyVars, inferVars, twiceVars>>

\* handleDeleteTemplate(templates[n].id, e)
DeleteTemplate(n) ==
    /\ step = "INPUT"
    /\ n \in 1..Len(templates)
    /\ templates' = SubSeq(templates, 1, n - 1) \o SubSeq(templates, n + 1, Len(templates))
    /\ executed' = NoExec
    /\ UNCHANGED <<HAS_API_KEY, edits, step, inputJson, isAnalyzing, isGenerating, error,
                   isLocalMode, fields, generateCount, customInstructions, generatedData,
                   generatedCode, analyzeCall, generateCall, changed>>
    /\ UNCHANGED <<codecVars, genVars, classVars, execVars, strategyVars, inferVars, twiceVars>>

PresetNext ==
    \/ \E text \in SampleTexts : EditSample(text)
    \/ Analyze
    \/ \E ok \in BOOLEAN : AnalyzeReturn(ok)
    \/ \E local \in BOOLEAN : SetLocalMode(local)
    \/ GenerateLocal
    \/ GenerateLocalFinish
    \/ GenerateCached
    \/ \E forceRefresh \in BOOLEAN : GenerateSynth(forceRefresh)
    \/ \E outcome \in {"good", "fail"} : SynthReturn(outcome)
    \/ GoToInput
    \/ BackToConfigure
    \/ \E name \in TemplateNames : SaveTemplate(name)
    \/ \E n \in 1..MaxTemplates : LoadTemplate(n)
    \/ \E n \in 1..MaxTemplates : DeleteTemplate(n)

SpecPreset == PresetInit /\ [][PresetNext]_vars

\* a step of handleSaveTemplate, and a step of handleLoadTemplate(templates[n])
SaveStep == \E name \in TemplateNames : SaveTemplate(name)

\* what handleLoadTemplate leaves of a config in the five parts of the state
Restored(config) ==
    /\ inputJson' = config.inputJson
    /\ fields' = config.fields
    /\ customInstructions' = config.customInstructions
    /\ generateCount' = config.generateCount
    /\ generatedCode' = config.generatedCode

\* C22 as stated: a save captures the sample text, the field list, the
\* instructions, the count and the cached program that is held, in either
\* mode, and a load restores the five parts of the preset unchanged.
C22_RoundTripAnyMode ==
    [][/\ SaveStep =>
            templates'[Len(templates')].config =
                [inputJson |-> inputJson, fields |-> fields,
                 customInstructions |-> customInstructions,
                 generateCount |-> generateCount, generatedCode |-> generatedCode]
       /\ \A n \in 1..MaxTemplates : LoadTemplate(n) => Restored(templates[n].config)]_vars

\* C22, amended: a save captures the sample text, the field list, the
\* instructions and the count, and the cached program when it happens in AI
\* mode; a save in local mode captures the empty program whatever the slot
\* holds.  A load restores the five captured parts unchanged in either mode.
C22_RoundTrip ==
    [][/\ SaveStep =>
            templates'[Len(templates')].config =
                [inputJson |-> inputJson, fields |-> fields,
                 customInstructions |-> customInstructions,
                 generateCount |-> generateCount,
                 generatedCode |-> IF isLocalMode THEN NoCode ELSE generatedCode]
       /\ \A n \in 1..MaxTemplates : LoadTemplate(n) => Restored(templates[n].config)]_vars

\* a preset saved in AI mode with its program was loaded after a failed
\* refresh had emptied the result and a new analysis had emptied the slot:
\* the session holds what the preset captured
C22_Witness ==
    /\ Len(templates) = 1
    /\ templates[1].name = "preset"
    /\ templates[1].config.generatedCode = Program("good")
    /\ templates[1].config.inputJson = TypedJson
    /\ templates[1].config.generateCount = 1
    /\ step = "CONFIGURE"
    /\ inputJson = TypedJson
    /\ fields = templates[1].config.fields
    /\ generateCount = 1
    /\ generatedCode = Program("good")
    /\ generatedData = <<>>
    /\ error = NoError
    /\ generateCall = NoCall

\* C29: without an API key the mode is local in every reachable state (the
\* initial one, after the mode buttons, after loading a preset that carries a
\* program), and neither the remote analysis nor the synthesis is called.
C29_LocalWithoutKey ==
    ~HAS_API_KEY =>
        /\ isLocalMode
        /\ analyzeCall.pc # "remote"
        /\ generateCall.pc # "synth"
        /\ executed # SynthRequest

\* without a key, a preset that carries a program was loaded, and a local
\* run was then made with its fields
C29_Witness ==
    /\ ~HAS_API_KEY
    /\ isLocalMode
    /\ templates = <<StoredTemplate>>
    /\ inputJson = StoredTemplate.config.inputJson
    /\ fields = StoredTemplate.config.fields
    /\ customInstructions = StoredTemplate.config.customInstructions
    /\ generateCall.pc = "local"
    /\ generatedCode = Program("good")

\* a call of handleGenerate starts, from the generate button or from the
\* refresh button
GenerateStarts ==
    \/ GenerateLocal
    \/ GenerateCached
    \/ \E forceRefresh \in BOOLEAN : GenerateSynth(forceRefresh)

\* C23: at most one generation run is in progress: while a call of
\* handleGenerate waits for the synthesis or for the local delay, no second
\* call starts, from either button, and the run in progress is flagged.
C23_OneRunAtATime ==
    [][/\ generateCall # NoCall => ~GenerateStarts
       /\ generateCall' # NoCall => isGenerating']_vars

\* a refresh waits for the synthesis on the CONFIGURE step, with fields and
\* with a program in the slot
C23_Witness ==
    /\ generateCall.pc = "synth"
    /\ isGenerating
    /\ step = "CONFIGURE"
    /\ ~isLocalMode
    /\ Len(fields) > 0
    /\ IsProgram(generatedCode)

(***************************************************************************)
(* The unflatten step on paths whose second segment is a name, a numeral,  *)
(* "-1" or the empty string: the records {a: {...}} over those names,      *)
(* flattened and re-nested.                                                *)
(***************************************************************************)
SegmentNames == {"", "-1", "0", "1", "b"}
SegmentSamples == ObjsOver({"a"}, ObjsOver(SegmentNames, Scalars) \ {EmptyObj})

SegmentInit ==
    /\ cpc = "start"
    /\ sample \in SegmentSamples
    /\ flat = <<>>
    /\ nested = Ok(Undefined)
    /\ GenIdle
    /\ ClassIdle
    /\ AppIdle
    /\ ExecIdle
    /\ StrategyIdle
    /\ InferIdle
    /\ TwiceIdle

SpecSegment == SegmentInit /\ [][CodecNext]_vars

\* a non-negative integer numeral
IsIndexNumeral(seg) == \E i \in 1..Len(IndexNames) : IndexNames[i] = seg

\* the segment that follows the prefix in the first path, in the order the
\* unflatten step takes the paths, that runs through the prefix: the path
\* that creates the container at the prefix
CreatingSegment(entries, prefix) ==
    LET through == SelectSeq(entries, LAMBDA e : /\ Len(e.k) > Len(prefix)
                                                  /\ SubSeq(e.k, 1, Len(prefix)) = prefix)
    IN Head(through).k[Len(prefix) + 1]

\* C24: the unflatten step creates an array for a path segment if and only if
\* the segment that follows is a non-negative integer numeral; before a
\* name, "-1" or the empty segment it creates an object.
C24_ArrayIffIndex ==
    (cpc = "done" /\ ~nested.err) =>
        \A n \in 1..Len(flat) : \A k \in 1..(Len(flat[n].k) - 1) :
            LET prefix == SubSeq(flat[n].k, 1, k)
            IN (GetPath(nested.val, prefix).t = "array")
                  <=> IsIndexNumeral(CreatingSegment(KeysInOrder(flat), prefix))

(***************************************************************************)
(* flattenObject on records that hold an array: of scalars, of objects, of *)
(* arrays, of up to MaxArr elements.                                       *)
(***************************************************************************)
SampledElems ==
    Scalars \cup {EmptyArr, Obj([b |-> Num(1)]), ArrOf(<<Num(1)>>), ArrOf(<<Num(1), Null>>)}
SampledRecords == ObjsOver({"a"}, ArrsOver(SampledElems))

SamplingInit ==
    /\ cpc = "start"
    /\ sample \in SampledRecords
    /\ flat = <<>>
    /\ nested = Ok(Undefined)
    /\ GenIdle
    /\ ClassIdle
    /\ AppIdle
    /\ ExecIdle
    /\ StrategyIdle
    /\ InferIdle
    /\ TwiceIdle

SpecSampling == SamplingInit /\ [][CodecNext]_vars

\* the entries of the flat map whose path starts with the name
EntriesUnder(name) == SelectSeq(flat, LAMBDA e : e.k[1] = name)

\* C25: flattenObject samples every array by its first element only: every
\* segment of an emitted path that indexes an array of the record is 0
\* (arrays nested directly in arrays included), an empty array contributes
\* no entry, an array of one scalar contributes exactly <key>.0, and a leaf
\* null is stored as null.
C25_FirstElementOnly ==
    cpc # "start" =>
        /\ \A n \in 1..Len(flat) : \A k \in 1..Len(flat[n].k) :
              GetPath(sample, SubSeq(flat[n].k, 1, k - 1)).t = "array" => flat[n].k[k] = "0"
        /\ \A name \in DOMAIN sample.v :
              LET value == sample.v[name] IN
              /\ (value.t = "array" /\ ArrLen(value) = 0) => EntriesUnder(name) = <<>>
              /\ (value.t = "array" /\ ArrLen(value) = 1 /\ ~IsObjectLike(value.v["0"])) =>
                    /\ Len(EntriesUnder(name)) = 1
                    /\ EntriesUnder(name)[1].k = <<name, "0">>
                    /\ EntriesUnder(name)[1].val = value.v["0"]

(***************************************************************************)
(* The configuration list under the row controls and the grouping helper,  *)
(* in a session without an API key: analysis, up to GroupingEdits edits of *)
(* the list, and the way back to the sample.                               *)
(***************************************************************************)
GroupingEdits == 2

GroupingInit ==
    /\ HAS_API_KEY = FALSE
    /\ step = "INPUT"
    /\ inputJson = DEFAULT_JSON
    /\ isAnalyzing = FALSE
    /\ isGenerating = FALSE
    /\ error = NoError
    /\ isLocalMode = ~HAS_API_KEY
    /\ fields = <<>>
    /\ generateCount = MaxRows
    /\ customInstructions = ""
    /\ generatedData = <<>>
    /\ generatedCode = NoCode
    /\ templates = <<>>
    /\ analyzeCall = NoCall
    /\ generateCall = NoCall
    /\ executed = NoExec
    /\ edits = MaxEdits - GroupingEdits
    /\ changed = FALSE
    /\ CodecIdle
    /\ GenIdle
    /\ ClassIdle
    /\ ExecIdle
    /\ StrategyIdle
    /\ InferIdle
    /\ TwiceIdle

GroupingNext ==
    \/ \E text \in SampleTexts : EditSample(text)
    \/ Analyze
    \/ \E index \in 1..2, st \in RowStrategies : ChangeStrategy(index, st)
    \/ \E index \in 1..2 : ChangeOption(index)
    \/ \E index \in 1..2 : DeleteField(index)
    \/ \E index \in 1..2, gs \in {"fixed", "even"} : ApplyGrouping(index, gs)
    \/ GoToInput

SpecGrouping == GroupingInit /\ [][GroupingNext]_vars

\* the fields of the list that carry options.groupingConfig
GroupingKeys == {n \in 1..Len(fields) : Has(Opts(fields[n]), "groupingConfig")}

\* C26: after any sequence of analyze, applyGroupingRule, field edit and
\* field delete operations, at most one field of the configuration list
\* carries options.groupingConfig.
C26_OneGroupingKey == Cardinality(GroupingKeys) <= 1

\* C27: in AI mode the source handed to executeGeneratedCode is text the
\* synthesis returned (or a preset restored): the placeholder a local run
\* writes into the slot is never executed as a generator program.
C27_PlaceholderNeverRun ==
    executed.kind \in {"cached", "fresh"} => executed.code # LocalPlaceholder

\* the two field lists differ structurally: in length, or at some place by a
\* change that isStructuralChange reports
ListsDiffer(old, new) ==
    \/ Len(old) # Len(new)
    \/ \E n \in 1..Len(old) : isStructuralChange(old[n], new[n])

\* C28: a program returned by a synthesis request does not stay in the slot
\* when a structural field edit, a field deletion or a re-analysis happened
\* while the request was in flight: the program a request leaves in the slot
\* in AI mode was synthesized from a field list without structural
\* difference from the current one.
C28_NoStaleSynthesis ==
    [][\A outcome \in ProgramKinds :
          (SynthReturn(outcome) /\ ~isLocalMode' /\ IsProgram(generatedCode'))
             => ~ListsDiffer(generateCall.fields, fields')]_vars

\* the rows (from 0) of the result in which the field holds the value
RowsHolding(field, value) ==
    {i \in 0..(Len(result) - 1) : Emitted(i, field) = Str(value)}

\* C30: under 'even' grouping with L >= 1 values and count N >= L the rows
\* are spread evenly: each value occupies one contiguous block of rows, and
\* the numbers of rows of any two values differ by at most 1.
C30_EvenSpread ==
    gpc = "done" =>
        \A n \in EvenGroupings :
            LET field == gfields[n]
                values == field.options.values
                L == Len(values)
            IN (L >= 1 /\ gcount >= L /\ ~IsCoerced(field)) =>
                 /\ \A v \in 1..L : \A i, k \in RowsHolding(field, values[v]) :
                       \A j \in i..k : j \in RowsHolding(field, values[v])
                 /\ \A v, w \in 1..L :
                       Cardinality(RowsHolding(field, values[v]))
                          - Cardinality(RowsHolding(field, values[w])) <= 1

====
